---- MODULE Spec2Model ----
(***************************************************************************)
(* The document-to-questions pipeline of backend/routers/assignments.py:   *)
(* availability probe, text extraction and normalisation, chunking,        *)
(* embedding retrieval behind a process-wide breaker flag, quota planning  *)
(* and per-type question generation.                                       *)
(*                                                                         *)
(* Document and response texts are sequences of one-character strings.     *)
(* Question type names are atomic strings.                                 *)
(***************************************************************************)
EXTENDS Integers, Sequences, FiniteSets, TLC

(***************************************************************************)
(* Bounds of the model.                                                    *)
(***************************************************************************)
\* Concurrent pipeline invocations sharing the process (SpecConc).
NumInv == 2
\* Longest extracted page text, in characters.
MaxPageLen == 1
\* Most comma-separated items in a question_types request of the pipeline.
MaxTypes == 2
\* Largest num_questions of a pipeline request.
MaxNum == 10
\* Most items in a question_types list handed to the quota plan (SpecPlan).
MaxPlanTypes == 3
\* Longest text, largest chunk size and overlap, and most chunks followed in
\* a call of chunk_text on its own (SpecChunk).
MaxTextLen == 5
MaxChunkSize == 3
MaxChunkIter == 6
\* Length of the long text of SpecChunk.
LongTextLen == 4000
\* Most segments of a response and largest num_questions in a call of
\* generate_question_batch on its own (SpecBatch).
MaxSegments == 2
MaxBatchNum == 2
\* retrieve_relevant_chunks called on its own: the most chunks and the
\* largest top_k
MaxRetrieveChunks == 5
MaxTopK == 3
\* SpecTypes: the most items of a request
MaxRawTypes == 3

(***************************************************************************)
(* Program constants.                                                      *)
(***************************************************************************)
\* ai_generate_questions: num_questions: int = Query(10, ge=1, le=50)
NumQuestionsMin == 1
NumQuestionsMax == 50
\* chunk_text(cleaned_text, chunk_size=1500, overlap=150)
ChunkSize == 1500
ChunkOverlap == 150
\* retrieve_relevant_chunks(chunks, query, top_k=min(3, len(chunks)))
TopK == 3
\* previous_questions.add(q[:100])
PromptTextLen == 1500
FingerprintLen == 100
\* HTTP status codes raised by the pipeline.
HTTP_400 == 400
HTTP_500 == 500
HTTP_503 == 503

(***************************************************************************)
(* Helpers on sequences.                                                   *)
(***************************************************************************)
Min(a, b) == IF a < b THEN a ELSE b
Max(a, b) == IF a > b THEN a ELSE b

\* Python slice s[i:j] with 0-based i (inclusive) and j (exclusive): a negative
\* index counts from the end, and both are clamped to 0..len(s).
Slice(s, i, j) ==
    LET Clamp(k) == IF k < 0 THEN Max(k + Len(s), 0) ELSE Min(k, Len(s))
        lo == Clamp(i)
        hi == Clamp(j)
    IN  IF hi <= lo THEN <<>> ELSE SubSeq(s, lo + 1, hi)

RECURSIVE SumSeq(_)
SumSeq(s) == IF s = <<>> THEN 0 ELSE Head(s) + SumSeq(Tail(s))

\* All sequences over S of length 0..n.
SeqsUpTo(S, n) == UNION {[1..k -> S] : k \in 0..n}

(***************************************************************************)
(* Character classes of Python's re on str patterns.                       *)
(***************************************************************************)
NL == "\n"
Digits == {"0", "1", "2", "3", "4", "5", "6", "7", "8", "9"}
Whitespace == {" ", "\n", "\t", "\r"}
IsDigit(c) == c \in Digits
IsSpace(c) == c \in Whitespace

\* str.strip(): drop leading and trailing whitespace.
RECURSIVE LStrip(_)
LStrip(s) == IF s # <<>> /\ IsSpace(Head(s)) THEN LStrip(Tail(s)) ELSE s
RECURSIVE RStrip(_)
RStrip(s) ==
    IF s # <<>> /\ IsSpace(s[Len(s)]) THEN RStrip(SubSeq(s, 1, Len(s) - 1)) ELSE s
Strip(s) == LStrip(RStrip(s))

\* First index >= i whose character is not in class C (Len(s)+1 if none).
RECURSIVE SkipWhile(_, _, _)
SkipWhile(s, i, C) ==
    IF i <= Len(s) /\ s[i] \in C THEN SkipWhile(s, i + 1, C) ELSE i

(***************************************************************************)
(* clean_text                                                              *)
(***************************************************************************)
\* re "\n\s*\d+\s*\n" anchored at index i: the index of the last character
\* of the match, 0 if there is none.  \s* before the digits takes the whole
\* whitespace run, \d+ the whole digit run, and the trailing \s*\n ends at
\* the last newline of the whitespace run after the digits.
PageNumberMatchEnd(s, i) ==
    IF ~(i <= Len(s) /\ s[i] = NL) THEN 0
    ELSE LET j == SkipWhile(s, i + 1, Whitespace)
             k == SkipWhile(s, j, Digits)
             m == SkipWhile(s, k, Whitespace)
             nls == {e \in k..(m - 1) : s[e] = NL}
         IN  IF k = j \/ nls = {} THEN 0
             ELSE CHOOSE e \in nls : \A f \in nls : f <= e

\* re.sub(r"\n\s*\d+\s*\n", "\n", text)
RECURSIVE SubPageNumbers(_, _)
SubPageNumbers(s, i) ==
    IF i > Len(s) THEN <<>>
    ELSE LET e == PageNumberMatchEnd(s, i)
         IN  IF e # 0 THEN <<NL>> \o SubPageNumbers(s, e + 1)
             ELSE <<s[i]>> \o SubPageNumbers(s, i + 1)

\* re "^\d+$" with re.MULTILINE anchored at index i: the index after the
\* match, 0 if there is none.
DigitLineMatchEnd(s, i) ==
    IF ~(i <= Len(s) /\ (i = 1 \/ s[i - 1] = NL)) THEN 0
    ELSE LET k == SkipWhile(s, i, Digits)
         IN  IF k > i /\ (k = Len(s) + 1 \/ s[k] = NL) THEN k ELSE 0

\* re.sub(r"^\d+$", "", text, flags=re.MULTILINE)
RECURSIVE SubDigitLines(_, _)
SubDigitLines(s, i) ==
    IF i > Len(s) THEN <<>>
    ELSE LET k == DigitLineMatchEnd(s, i)
         IN  IF k # 0 THEN SubDigitLines(s, k)
             ELSE <<s[i]>> \o SubDigitLines(s, i + 1)

\* re.sub of a run of at least `least` characters c by the text `by`.
RECURSIVE SubRuns(_, _, _, _, _)
SubRuns(s, i, c, least, by) ==
    IF i > Len(s) THEN <<>>
    ELSE LET k == SkipWhile(s, i, {c})
         IN  IF k - i >= least THEN by \o SubRuns(s, k, c, least, by)
             ELSE <<s[i]>> \o SubRuns(s, i + 1, c, least, by)

clean_text(text) ==
    LET t1 == SubPageNumbers(text, 1)
        t2 == SubDigitLines(t1, 1)
        t3 == SubRuns(t2, 1, NL, 3, <<NL, NL>>)
        t4 == SubRuns(t3, 1, " ", 2, <<" ">>)
    IN  Strip(t4)

(***************************************************************************)
(* chunk_text                                                              *)
(***************************************************************************)
\* end = min(start + chunk_size, len(text))
chunk_end(text, start, chunk_size) == Min(start + chunk_size, Len(text))

\* A mutant of loop_breaks: the loop goes on after the window that ends the text.
loop_breaks_never(text, end) == FALSE

\* if end >= len(text): break
loop_breaks(text, end) == end >= Len(text)

\* A mutant of next_start: the next window starts where the last one ended.
next_start_without_overlap(end, overlap) == end

\* A mutant of next_start: the next window starts one character late.
next_start_one_late(end, overlap) == end - overlap + 1

\* start = end - overlap
next_start(end, overlap) == end - overlap

\* The while loop of chunk_text from window start `start` (0-based).
RECURSIVE ChunkLoop(_, _, _, _)
ChunkLoop(text, start, chunk_size, overlap) ==
    IF ~(start < Len(text)) THEN <<>>
    ELSE LET end == chunk_end(text, start, chunk_size)
         IN  IF loop_breaks(text, end) THEN <<Slice(text, start, end)>>
             ELSE <<Slice(text, start, end)>>
                    \o ChunkLoop(text, next_start(end, overlap), chunk_size, overlap)

\* chunk_text as the pipeline calls it, with overlap < chunk_size.
chunk_text(text, chunk_size, overlap) ==
    IF Len(text) <= chunk_size THEN <<text>>
    ELSE ChunkLoop(text, 0, chunk_size, overlap)

(***************************************************************************)
(* Question types: parsing and alias normalisation                         *)
(***************************************************************************)
\* The three types generate_question_batch has a prompt for.
RecognizedTypes == {"mcq", "truefalse", "shortanswer"}

\* The raw items of question_types the model draws requests from.  A request
\* string is its items joined by ","; no item holds a comma, so
\* question_types.split(",") is the sequence of items itself.
RawTypeNames == {"mcq", " MCQ ", "multiplechoice", "MultipleChoice", "trueFalse",
                 "tf", "TF", "shortAnswer", "sa", "essay", ""}

\* A mutant of StripLower: the item is taken as it was written.
StripLowerAsWritten(raw) == raw

\* qtype.strip().lower() on RawTypeNames: only these five items change.
StripLower(raw) ==
    CASE raw = " MCQ " -> "mcq"
      [] raw = "MultipleChoice" -> "multiplechoice"
      [] raw = "trueFalse" -> "truefalse"
      [] raw = "TF" -> "tf"
      [] raw = "shortAnswer" -> "shortanswer"
      [] OTHER -> raw

\* type_mapping.get(qtype, qtype)
type_mapping(qtype) ==
    CASE qtype \in {"mcq", "multiplechoice"} -> "mcq"
      [] qtype \in {"truefalse", "trueFalse", "true/false", "tf"} -> "truefalse"
      [] qtype \in {"shortanswer", "shortAnswer", "short", "sa"} -> "shortanswer"
      [] OTHER -> qtype

\* requested_types = [qtype.strip().lower() for qtype in question_types.split(",")]
requested_types(items) == [i \in 1..Len(items) |-> StripLower(items[i])]

\* The loop building normalized_types from requested[i..], given the list so far.
RECURSIVE NormalizeLoop(_, _, _)
NormalizeLoop(requested, i, acc) ==
    IF i > Len(requested) THEN acc
    ELSE LET normalized == type_mapping(requested[i])
         IN  IF \E k \in 1..Len(acc) : acc[k] = normalized
             THEN NormalizeLoop(requested, i + 1, acc)
             ELSE NormalizeLoop(requested, i + 1, Append(acc, normalized))

normalized_types_of(items) == NormalizeLoop(requested_types(items), 1, <<>>)

(***************************************************************************)
(* Quota plan                                                              *)
(***************************************************************************)
\* questions_per_type = max(1, num_questions // len(normalized_types))
questions_per_type_of(num, n) == Max(1, num \div n)

\* remaining = num_questions % len(normalized_types)
remaining_of(num, n) == num % n

\* A mutant of questions_to_generate: the extra question is given to every
\* type, whether or not a remainder is left.
questions_to_generate_always_extra(qpt, rem) == qpt + 1

\* questions_to_generate = questions_per_type (+ 1 if remaining > 0)
questions_to_generate(qpt, rem) == IF rem > 0 THEN qpt + 1 ELSE qpt

\* remaining -= 1, only if remaining > 0
remaining_after(rem) == IF rem > 0 THEN rem - 1 ELSE rem

(***************************************************************************)
(* Availability probe                                                      *)
(***************************************************************************)
\* What client.get(ollama_url) does: an HTTP status, or an exception.
ProbeStatuses == {200, 404, 500, 503}
ProbeOutcomes ==
    [kind : {"response"}, status : ProbeStatuses]
        \cup [kind : {"ConnectError", "Exception"}, status : {0}]

\* A mutant of check_ollama_available: only a 200 counts as available.
check_ollama_available_ok_only(outcome) ==
    outcome.kind = "response" /\ outcome.status = 200

check_ollama_available(outcome) ==
    IF outcome.kind = "response" THEN outcome.status < 500 ELSE FALSE

\* A mutant of next_after_probe: the pipeline goes on whatever the probe said.
next_after_probe_ignoring(available) == "Reading"

\* A mutant of next_after_probe: a false answer has the probe made again.
next_after_probe_retrying(available) ==
    IF available THEN "Reading" ELSE "CheckingAvailability"

\* if not ollama_available: raise HTTPException(503) -- else go on to pdf.read()
next_after_probe(available) == IF available THEN "Reading" ELSE "Failed"

(***************************************************************************)
(* Embedding client and breaker flag                                       *)
(***************************************************************************)
\* Embedding vectors of the model: signed unit axis vectors, whose cosine
\* similarities are exactly -1, 0 or 1.
Vectors == {<<1, 0>>, <<0, 1>>}

\* What client.post(ollama_embed_url) does: 200 with an "embedding" field,
\* 200 without it, another status, or an exception (a timeout included).
EmbedOutcomes ==
    [kind : {"ok"}, embedding : Vectors]
        \cup [kind : {"ok_no_field", "non200", "exception"}, embedding : {<<>>}]

\* The vector get_embedding returns once the response is in.
embedding_returned(outcome) ==
    IF outcome.kind = "ok" THEN outcome.embedding ELSE <<>>

\* A mutant of embeddings_api_failed_after: a 200 response closes the breaker
\* again.
embeddings_api_failed_after_reset(failed, outcome) ==
    IF outcome.kind \in {"non200", "exception"} THEN TRUE ELSE FALSE

\* A mutant of embeddings_api_failed_after: every call that returns [] sets
\* the flag.
embeddings_api_failed_after_any_empty(failed, outcome) ==
    IF outcome.kind # "ok" THEN TRUE ELSE failed

\* _embeddings_api_failed once the response is handled.
embeddings_api_failed_after(failed, outcome) ==
    IF outcome.kind \in {"non200", "exception"} THEN TRUE ELSE failed

(***************************************************************************)
(* Relevance selection                                                     *)
(***************************************************************************)
RECURSIVE Dot(_, _)
Dot(v1, v2) ==
    IF v1 = <<>> THEN 0 ELSE Head(v1) * Head(v2) + Dot(Tail(v1), Tail(v2))

\* Integer square root of a perfect square (the model's vectors have one).
ISqrt(n) == CHOOSE r \in 0..n : r * r = n

cosine_similarity(vec1, vec2) ==
    IF vec1 = <<>> \/ vec2 = <<>> \/ Len(vec1) # Len(vec2) THEN 0
    ELSE LET magnitude1 == ISqrt(Dot(vec1, vec1))
             magnitude2 == ISqrt(Dot(vec2, vec2))
         IN  IF magnitude1 = 0 \/ magnitude2 = 0 THEN 0
             ELSE Dot(vec1, vec2) \div (magnitude1 * magnitude2)

\* A mutant of evenly_distributed: the first top_k chunks are taken.
evenly_distributed_leading(document_chunks, k) ==
    IF Len(document_chunks) <= k THEN document_chunks
    ELSE [i \in 1..k |-> document_chunks[i]]

\* The fallback of retrieve_relevant_chunks when the query has no embedding.
evenly_distributed(chunks, top_k) ==
    IF Len(chunks) <= top_k THEN chunks
    ELSE LET step == Len(chunks) \div top_k
         IN  [i \in 1..top_k |-> chunks[(i - 1) * step + 1]]

\* A mutant of similarity_of: a chunk without an embedding ranks below all.
similarity_of_unembedded_last(query_embedding, embedding) ==
    IF embedding # <<>> THEN cosine_similarity(query_embedding, embedding) ELSE -2

\* The similarity given to a chunk's embedding: 0.0 when it has none.
similarity_of(query_embedding, embedding) ==
    IF embedding # <<>> THEN cosine_similarity(query_embedding, embedding) ELSE 0

scores_of(query_embedding, chunk_embeddings) ==
    [i \in 1..Len(chunk_embeddings) |->
        similarity_of(query_embedding, chunk_embeddings[i])]

\* similarities: (similarity, idx, chunk) for every chunk, in chunk order.
similarities_of(chunks, query_embedding, chunk_embeddings) ==
    [i \in 1..Len(chunks) |->
        [similarity |-> similarity_of(query_embedding, chunk_embeddings[i]),
         idx |-> i - 1,
         chunk |-> chunks[i]]]

\* A mutant of SortedDescending: entries of equal similarity come out in
\* reverse order.
SortedDescendingTiesReversed(sims) ==
    LET Before(a, b) ==
            \/ sims[a].similarity > sims[b].similarity
            \/ sims[a].similarity = sims[b].similarity /\ a > b
        Rank(a) == Cardinality({b \in 1..Len(sims) : Before(b, a)}) + 1
    IN  [k \in 1..Len(sims) |-> sims[CHOOSE a \in 1..Len(sims) : Rank(a) = k]]

\* list.sort(reverse=True, key=lambda x: x[0]): descending and stable, so the
\* k-th entry is the one with exactly k-1 entries before it in that order.
SortedDescending(sims) ==
    LET Before(a, b) ==
            \/ sims[a].similarity > sims[b].similarity
            \/ sims[a].similarity = sims[b].similarity /\ a < b
        Rank(a) == Cardinality({b \in 1..Len(sims) : Before(b, a)}) + 1
    IN  [k \in 1..Len(sims) |-> sims[CHOOSE a \in 1..Len(sims) : Rank(a) = k]]

\* A mutant of top_chunks_of: the sorted list is returned whole.
top_chunks_of_uncut(document_chunks, query_vector, vectors, k) ==
    LET sorted == SortedDescending(similarities_of(document_chunks, query_vector, vectors))
    IN  [i \in 1..Len(sorted) |-> sorted[i].chunk]

\* top_chunks = [chunk for _, _, chunk in similarities[:top_k]]
top_chunks_of(chunks, query_embedding, chunk_embeddings, top_k) ==
    LET sorted == SortedDescending(
                      similarities_of(chunks, query_embedding, chunk_embeddings))
        kept == Slice(sorted, 0, top_k)
    IN  [k \in 1..Len(kept) |-> kept[k].chunk]

\* "\n\n".join(relevant_chunks)
RECURSIVE JoinWith(_, _)
JoinWith(parts, sep) ==
    IF parts = <<>> THEN <<>>
    ELSE IF Len(parts) = 1 THEN parts[1]
    ELSE parts[1] \o sep \o JoinWith(Tail(parts), sep)

\* if not relevant_chunks: relevant_chunks = chunks[:3] if len(chunks) >= 3 else chunks
relevant_or_first(relevant, chunks) ==
    IF relevant # <<>> THEN relevant
    ELSE IF Len(chunks) >= 3 THEN Slice(chunks, 0, 3) ELSE chunks

(***************************************************************************)
(* Parsing of the generation backend's response                            *)
(***************************************************************************)
UpperLetters == <<"A", "B", "C", "D", "E", "F", "G", "H", "I", "J", "K", "L", "M",
                  "N", "O", "P", "Q", "R", "S", "T", "U", "V", "W", "X", "Y", "Z">>
LowerLetters == <<"a", "b", "c", "d", "e", "f", "g", "h", "i", "j", "k", "l", "m",
                  "n", "o", "p", "q", "r", "s", "t", "u", "v", "w", "x", "y", "z">>
Lower(c) ==
    IF \E k \in 1..26 : UpperLetters[k] = c
    THEN LowerLetters[CHOOSE k \in 1..26 : UpperLetters[k] = c] ELSE c
Upper(c) ==
    IF \E k \in 1..26 : LowerLetters[k] = c
    THEN UpperLetters[CHOOSE k \in 1..26 : LowerLetters[k] = c] ELSE c

\* Least element of a set of indices, 0 for the empty set.
FirstOf(S) == IF S = {} THEN 0 ELSE CHOOSE i \in S : \A j \in S : i <= j

\* The literal `word` is at index i of s, letters compared as re.IGNORECASE does.
MatchesAt(s, i, word) ==
    /\ i >= 1
    /\ i + Len(word) - 1 <= Len(s)
    /\ \A k \in 1..Len(word) : Lower(s[i + k - 1]) = Lower(word[k])

ANSWER_MARK == <<"A", "N", "S", "W", "E", "R", ":">>
Q_MARK == <<"Q", ":">>
QUESTION_PREFIX == <<"Q", "u", "e", "s", "t", "i", "o", "n", ":", " ">>
ANSWER_PREFIX == <<"\n", "A", "n", "s", "w", "e", "r", ":", " ">>
CORRECT_PREFIX == <<"C", "o", "r", "r", "e", "c", "t", " ", "A", "n", "s", "w", "e", "r", ":", " ">>
TRUE_WORD == <<"T", "r", "u", "e">>
FALSE_WORD == <<"F", "a", "l", "s", "e">>
OptionLetters == <<"A", "B", "C", "D">>

\* re "\n[A-D]\)" (IGNORECASE) at index i.
OptionMarkerAt(s, i) ==
    /\ i >= 1
    /\ i + 2 <= Len(s)
    /\ s[i] = NL
    /\ Lower(s[i + 1]) \in {"a", "b", "c", "d"}
    /\ s[i + 2] = ")"

\* re "$" without MULTILINE before index i: the end of s, or its last newline.
AtEnd(s, i) == i = Len(s) + 1 \/ (i = Len(s) /\ s[i] = NL)

\* re "\n?Q:\s*" (IGNORECASE) anchored at index i: the index after the match,
\* 0 if there is none.
QSplitMatchEnd(s, i) ==
    IF s[i] = NL /\ MatchesAt(s, i + 1, Q_MARK)
    THEN SkipWhile(s, i + 3, Whitespace)
    ELSE IF MatchesAt(s, i, Q_MARK) THEN SkipWhile(s, i + 2, Whitespace)
    ELSE 0

\* re.split(r"\n?Q:\s*", response_text, flags=re.IGNORECASE)
RECURSIVE SplitOnQ(_, _, _)
SplitOnQ(s, i, part) ==
    IF i > Len(s) THEN <<part>>
    ELSE LET e == QSplitMatchEnd(s, i)
         IN  IF e # 0 THEN <<part>> \o SplitOnQ(s, e, <<>>)
             ELSE SplitOnQ(s, i + 1, Append(part, s[i]))

\* The group of "\s*(.+?)(?=<stop>)" (DOTALL) read from index i, as 1-based
\* bounds <<first, last>>, or <<0, 0>> when no character is left for it.  \s*
\* gives one character back when the whitespace runs to the end of s.
LazyGroup(s, i, StopAt(_)) ==
    IF i > Len(s) THEN <<0, 0>>
    ELSE LET j == SkipWhile(s, i, Whitespace)
             g == IF j <= Len(s) THEN j ELSE Len(s)
             e == FirstOf({e \in g..Len(s) : StopAt(e + 1)})
         IN  <<g, e>>

\* "^(.+?)(?=ANSWER:|Q:|$)": the text of a true/false or short-answer segment.
StatementOf(part) ==
    LET stop(i) == MatchesAt(part, i, ANSWER_MARK) \/ MatchesAt(part, i, Q_MARK)
                      \/ AtEnd(part, i)
        e == FirstOf({e \in 1..Len(part) : stop(e + 1)})
    IN  Strip(SubSeq(part, 1, e))

\* re.search(r"ANSWER:\s*(True|False)", part, re.IGNORECASE), capitalized;
\* <<>> when there is no match.
TrueFalseAnswerOf(part) ==
    LET word(i) ==
            LET j == SkipWhile(part, i + Len(ANSWER_MARK), Whitespace)
            IN  IF MatchesAt(part, j, TRUE_WORD) THEN TRUE_WORD
                ELSE IF MatchesAt(part, j, FALSE_WORD) THEN FALSE_WORD
                ELSE <<>>
        i == FirstOf({i \in 1..Len(part) :
                        MatchesAt(part, i, ANSWER_MARK) /\ word(i) # <<>>})
    IN  IF i = 0 THEN <<>> ELSE word(i)

\* re.search(r"ANSWER:\s*(.+?)(?=Q:|$)", part, DOTALL | IGNORECASE): whether
\* it matches, and its group stripped.
ShortAnswerOf(part) ==
    LET stop(i) == MatchesAt(part, i, Q_MARK) \/ AtEnd(part, i)
        i == FirstOf({i \in 1..Len(part) :
                        /\ MatchesAt(part, i, ANSWER_MARK)
                        /\ i + Len(ANSWER_MARK) <= Len(part)})
        grp == LazyGroup(part, i + Len(ANSWER_MARK), stop)
    IN  IF i = 0 THEN [found |-> FALSE, text |-> <<>>]
        ELSE [found |-> TRUE, text |-> Strip(SubSeq(part, grp[1], grp[2]))]

\* "^(.+?)(?=\n[A-D]\))": the length of the question text of a
\* multiple-choice segment, 0 when no option marker follows.
McqQuestionEnd(part) == FirstOf({e \in 1..Len(part) : OptionMarkerAt(part, e + 1)})

\* re.search(rf"{letter}\)\s*(.+?)(?=\n[A-D]\)|ANSWER:|Q:|$)", part): whether it
\* matches, and its group stripped.
McqOptionOf(part, letter) ==
    LET stop(i) == OptionMarkerAt(part, i) \/ MatchesAt(part, i, ANSWER_MARK)
                      \/ MatchesAt(part, i, Q_MARK) \/ AtEnd(part, i)
        i == FirstOf({i \in 1..Len(part) :
                        /\ MatchesAt(part, i, <<letter, ")">>)
                        /\ i + 2 <= Len(part)})
        grp == LazyGroup(part, i + 2, stop)
    IN  IF i = 0 THEN [found |-> FALSE, text |-> <<>>]
        ELSE [found |-> TRUE, text |-> Strip(SubSeq(part, grp[1], grp[2]))]

\* re.search(r"ANSWER:\s*([A-D])", part, re.IGNORECASE), upper-cased; <<>> when
\* there is no match.
McqAnswerOf(part) ==
    LET letter(i) == SkipWhile(part, i + Len(ANSWER_MARK), Whitespace)
        i == FirstOf({i \in 1..Len(part) :
                        /\ MatchesAt(part, i, ANSWER_MARK)
                        /\ letter(i) <= Len(part)
                        /\ Lower(part[letter(i)]) \in {"a", "b", "c", "d"}})
    IN  IF i = 0 THEN <<>> ELSE <<Upper(part[letter(i)])>>

\* The questions one segment yields (none or one), by type.
ParseMcq(part, include_answers) ==
    LET e == McqQuestionEnd(part)
        opt(k) == McqOptionOf(part, OptionLetters[k])
        RECURSIVE Lines(_)
        Lines(k) == IF k > 4 THEN <<>>
                    ELSE <<OptionLetters[k], ")", " ">> \o opt(k).text \o <<NL>>
                            \o Lines(k + 1)
        answer == McqAnswerOf(part)
        formatted == QUESTION_PREFIX \o Strip(SubSeq(part, 1, e)) \o <<NL>> \o Lines(1)
                        \o (IF include_answers /\ answer # <<>>
                            THEN CORRECT_PREFIX \o answer ELSE <<>>)
    IN  IF e = 0 THEN <<>>
        ELSE IF \A k \in 1..4 : opt(k).found THEN <<Strip(formatted)>>
        ELSE <<>>

ParseTrueFalse(part, include_answers) ==
    LET answer == TrueFalseAnswerOf(part)
    IN  <<QUESTION_PREFIX \o StatementOf(part)
            \o (IF include_answers /\ answer # <<>>
                THEN ANSWER_PREFIX \o answer ELSE <<>>)>>

ParseShortAnswer(part, include_answers) ==
    LET answer == ShortAnswerOf(part)
    IN  <<QUESTION_PREFIX \o StatementOf(part)
            \o (IF include_answers /\ answer.found
                THEN ANSWER_PREFIX \o answer.text ELSE <<>>)>>

\* A mutant of ParseSegment: with include_answers, a segment without an
\* answer line is skipped.
ParseSegmentSkippingUnanswered(part, q_type, include_answers) ==
    IF Strip(part) = <<>> THEN <<>>
    ELSE IF include_answers /\ \A i \in 1..Len(part) : ~MatchesAt(part, i, ANSWER_MARK)
    THEN <<>>
    ELSE IF q_type = "mcq" THEN ParseMcq(part, include_answers)
    ELSE IF q_type = "truefalse" THEN ParseTrueFalse(part, include_answers)
    ELSE ParseShortAnswer(part, include_answers)

ParseSegment(part, q_type, include_answers) ==
    IF Strip(part) = <<>> THEN <<>>
    ELSE IF q_type = "mcq" THEN ParseMcq(part, include_answers)
    ELSE IF q_type = "truefalse" THEN ParseTrueFalse(part, include_answers)
    ELSE ParseShortAnswer(part, include_answers)

\* for part in parts[1:]: ... questions.append(formatted)
RECURSIVE ParseParts(_, _, _, _)
ParseParts(parts, k, q_type, include_answers) ==
    IF k > Len(parts) THEN <<>>
    ELSE ParseSegment(parts[k], q_type, include_answers)
            \o ParseParts(parts, k + 1, q_type, include_answers)

\* The questions parsed from a 200 response, before the cut to num_questions.
parsed_questions(response_text, q_type, include_answers) ==
    ParseParts(SplitOnQ(response_text, 1, <<>>), 2, q_type, include_answers)

(***************************************************************************)
(* Generation backend                                                      *)
(***************************************************************************)
\* Response texts of the backend the model draws from.
RESP_EMPTY == <<>>
RESP_FIVE == <<"Q", ":", " ", "a", "\n", "Q", ":", " ", "b", "\n", "Q", ":", " ", "c", "\n", "Q", ":", " ", "d", "\n", "Q", ":", " ", "e">>
RESP_MCQ == <<"Q", ":", " ", "a", "\n", "A", ")", " ", "1", "\n", "B", ")", " ", "2", "\n", "C", ")", " ", "3", "\n", "D", ")", " ", "4", "\n", "A", "N", "S", "W", "E", "R", ":", " ", "B">>
Responses == {RESP_EMPTY, RESP_FIVE, RESP_MCQ}

\* The branch of the parser a type takes: "mcq", "truefalse", else short answer.
parser_of(q_type) ==
    IF q_type = "mcq" THEN "mcq"
    ELSE IF q_type = "truefalse" THEN "truefalse"
    ELSE "shortanswer"

\* parsed_questions on the model's responses, evaluated once.
ParsedResponses ==
    [r \in Responses |-> [t \in RecognizedTypes |-> [a \in BOOLEAN |->
        parsed_questions(r, t, a)]]]

\* What client.post(ollama_url) and the outer asyncio.wait_for do: an HTTP
\* response, an exception of the client, or the outer timeout.
GenFailures ==
    [kind : {"ConnectError", "TimeoutException", "Exception", "OuterTimeout"},
     status : {0}, response : {<<>>}]
GenStatuses ==
    [kind : {"response"}, status : {404, 500}, response : {<<>>}]
GenOutcomes ==
    GenFailures \cup GenStatuses
        \cup [kind : {"response"}, status : {200}, response : Responses]

Returned(questions) == [raised |-> "none", questions |-> questions]
Raised(exc) == [raised |-> exc, questions |-> <<>>]

\* parsed_questions, read from ParsedResponses where it holds the response.
questions_parsed(response_text, q_type, include_answers) ==
    IF response_text \in Responses
    THEN ParsedResponses[response_text][parser_of(q_type)][include_answers]
    ELSE parsed_questions(response_text, q_type, include_answers)

\* A mutant of first_count: every parsed question is returned.
first_count_uncut(questions, num) == questions

\* return questions[:num_questions]
first_count(questions, num) == Slice(questions, 0, num)

\* _generate(): what the inner coroutine returns or raises.  Its handler for
\* httpx.ConnectError returns []; any other exception reaches the clause
\* "except httpx.TimeoutError", a name httpx does not define, so the lookup
\* itself raises.
generate_inner(outcome, q_type, num, include_answers) ==
    IF outcome.kind = "ConnectError" THEN Returned(<<>>)
    ELSE IF outcome.kind \in {"TimeoutException", "Exception"} THEN Raised("Exception")
    ELSE IF outcome.status = 404 THEN Returned(<<>>)
    ELSE IF outcome.status # 200 THEN Returned(<<>>)
    ELSE Returned(first_count(questions_parsed(outcome.response, q_type,
                                               include_answers), num))

\* A mutant of generate_question_batch: a timeout is raised to the caller.
generate_question_batch_timeout_raised(outcome, q_type, num, include_answers) ==
    IF outcome.kind \in {"OuterTimeout", "TimeoutException"}
    THEN Raised("asyncio.TimeoutError")
    ELSE LET inner == generate_inner(outcome, q_type, num, include_answers)
         IN  IF inner.raised = "ConnectError" THEN Raised("ConnectError")
             ELSE Returned(inner.questions)

\* generate_question_batch: asyncio.wait_for(_generate(), timeout) and its
\* handlers.  Only httpx.ConnectError is re-raised.
generate_question_batch(outcome, q_type, num, include_answers) ==
    LET inner == IF outcome.kind = "OuterTimeout" THEN Raised("asyncio.TimeoutError")
                 ELSE generate_inner(outcome, q_type, num, include_answers)
    IN  IF inner.raised = "none" THEN inner
        ELSE IF inner.raised = "asyncio.TimeoutError" THEN Returned(<<>>)
        ELSE IF inner.raised = "ConnectError" THEN Raised("ConnectError")
        ELSE Returned(<<>>)

\* The prompt templates: for "mcq", for "truefalse", and the one of every
\* other type.
template_of(q_type) ==
    IF q_type = "mcq" THEN "mcq"
    ELSE IF q_type = "truefalse" THEN "truefalse"
    ELSE "shortanswer"

\* The fingerprints of previous_questions a prompt names: no template has a
\* place for them.
seen_in_prompt(previous_questions) == {}

\* prompt = f"""Create {num_questions} ... Text: {chunk[:1500]}""", by what
\* goes into it.
prompt_of(chunk, q_type, num, previous_questions, include_answers) ==
    [template |-> template_of(q_type), num_questions |-> num,
     include_answers |-> include_answers,
     text |-> Slice(chunk, 0, PromptTextLen),
     seen |-> seen_in_prompt(previous_questions)]

\* context_text = "\n\n".join(relevant_chunks)
context_text_of(relevant_chunks) == JoinWith(relevant_chunks, <<NL, NL>>)

\* A mutant of extended: the batch is put in front.
extended_in_front(questions, batch) == batch \o questions

\* all_questions.extend(batch_questions)
extended(questions, batch) == questions \o batch

\* str(n) of a natural number.
DigitChars == <<"0", "1", "2", "3", "4", "5", "6", "7", "8", "9">>
RECURSIVE Decimal(_)
Decimal(n) ==
    IF n < 10 THEN <<DigitChars[n + 1]>>
    ELSE Decimal(n \div 10) \o <<DigitChars[(n % 10) + 1]>>

\* "\n\n".join([f"{i+1}. {q}" for i, q in enumerate(all_questions)])
questions_text_of(questions) ==
    JoinWith([i \in 1..Len(questions) |-> Decimal(i) \o <<".", " ">> \o questions[i]],
             <<NL, NL>>)

\* error_msg appended to connection_errors.
CONNECT_ERROR_MSG == "Cannot connect to Ollama service"

\* previous_questions.add(q[:100]) for every q of the batch
fingerprints(batch) == {Slice(batch[k], 0, FingerprintLen) : k \in 1..Len(batch)}

\* A mutant of aggregate: the result is returned without looking at
\* all_questions.
aggregate_always_ok(questions, errors) ==
    [status |-> 200, detail |-> "ok", count |-> Len(questions)]

\* Step 8 of generate_questions_from_pdf: the failure raised for an empty
\* all_questions, or the returned result.
aggregate(questions, errors) ==
    IF questions = <<>>
    THEN IF errors # <<>>
         THEN [status |-> HTTP_503, detail |-> "cannot_connect", count |-> 0]
         ELSE [status |-> HTTP_500, detail |-> "no_questions", count |-> 0]
    ELSE [status |-> 200, detail |-> "ok", count |-> Len(questions)]

(***************************************************************************)
(* State                                                                   *)
(***************************************************************************)
Invocations == 1..NumInv

VARIABLES
    \* _embeddings_api_failed, the module-level breaker flag
    embeddings_api_failed,
    \* where each invocation of generate_questions_from_pdf stands
    pc,
    \* its arguments: the uploaded document, num_questions, the items of
    \* question_types, include_answers
    pdf, num_questions, question_types, include_answers,
    \* its locals
    ollama_available, cleaned_text, chunks, normalized_types,
    questions_per_type, remaining,
    \* history: what the availability probe met, kept until the document is read
    probe_outcome,
    \* retrieve_relevant_chunks: its argument top_k, its locals (the chunk
    \* being embedded, 0 for the query, and the embeddings so far), and what
    \* it returned
    top_k, embed_idx, query_embedding, chunk_embeddings, relevant_chunks,
    \* the generation loop: types done, all_questions, previous_questions,
    \* connection_errors
    type_idx, all_questions, previous_questions, connection_errors,
    \* what the invocation returned or raised
    result,
    \* history: whether any get_embedding call has failed in this process
    embed_failed_once,
    \* history per invocation: the stages it performed
    work,
    \* history of its latest get_embedding call, kept while it retrieves:
    \* whether a call had failed before it started, whether it sent a
    \* request, whether it has returned and what, how many calls the
    \* retrieval has made, whether the query's call returned [], how the
    \* call ended, and whether a request of the retrieval has failed
    embed_call,
    \* history: what the latest retrieve_relevant_chunks of the invocation
    \* returned, on which path, and the similarity it had given each chunk
    retrieval,
    \* history of its generation loop: the quota handed to each batch, for
    \* each batch whether the backend refused the connection and how many
    \* questions it produced, and the latest batch's backend outcome with
    \* what generate_question_batch made of it
    quotas, gen_log, last_gen,
    \* history: the prompt of the batch being awaited
    prompt,
    \* questions_text of step 8, the "questions" of the returned result
    questions_text,
    \* a call of chunk_text on its own: where it stands, its arguments, its
    \* locals start and chunks, and the history of the window starts
    ck_pc, ck_text, ck_size, ck_overlap, ck_start, ck_chunks, ck_starts,
    \* a call of generate_question_batch on its own: where it stands, its
    \* arguments q_type, num_questions and include_answers, what the backend
    \* did, and what the call returned or raised
    gb_pc, gb_type, gb_num, gb_answers, gb_outcome, gb_batch

inputVars == <<pdf, num_questions, question_types, include_answers>>
frontVars == <<ollama_available, cleaned_text, chunks, normalized_types,
               questions_per_type, probe_outcome>>
retrVars == <<top_k, embed_idx, query_embedding, chunk_embeddings, relevant_chunks>>
genVars == <<remaining, type_idx, all_questions, previous_questions,
             connection_errors, quotas, gen_log, last_gen, prompt, questions_text>>
pipelineVars == <<embeddings_api_failed, pc, inputVars, frontVars, retrVars, genVars,
                  result, embed_failed_once, embed_call, retrieval, work>>
chunkVars == <<ck_pc, ck_text, ck_size, ck_overlap, ck_start, ck_chunks, ck_starts>>
batchVars == <<gb_pc, gb_type, gb_num, gb_answers, gb_outcome, gb_batch>>
unitVars == <<chunkVars, batchVars>>
vars == <<pipelineVars, unitVars>>

NoResult == [status |-> 0, detail |-> "none", count |-> 0]
NoPdf == [kind |-> "none", pages |-> <<>>]
NoEmbedCall == [started |-> FALSE, after_failure |-> FALSE, requested |-> FALSE,
                returned |-> FALSE, vector |-> <<>>, calls |-> 0,
                query_empty |-> FALSE, kind |-> "none", failed |-> FALSE]
NoRetrieval == [path |-> "none", returned |-> <<>>, scores |-> <<>>,
                embedded |-> <<>>]
NoProbe == [kind |-> "none", status |-> 0]
NoPrompt == [template |-> "none", num_questions |-> 0, include_answers |-> FALSE,
             text |-> <<>>, seen |-> {}]
NoGen == [kind |-> "none", status |-> 0, raised |-> "none"]
NoOutcome == [kind |-> "none", status |-> 0, response |-> <<>>]

Init ==
    /\ embeddings_api_failed = FALSE
    /\ embed_failed_once = FALSE
    /\ pc = [p \in Invocations |-> "NotStarted"]
    /\ pdf = [p \in Invocations |-> NoPdf]
    /\ num_questions = [p \in Invocations |-> 0]
    /\ question_types = [p \in Invocations |-> <<>>]
    /\ include_answers = [p \in Invocations |-> FALSE]
    /\ ollama_available = [p \in Invocations |-> FALSE]
    /\ cleaned_text = [p \in Invocations |-> <<>>]
    /\ chunks = [p \in Invocations |-> <<>>]
    /\ normalized_types = [p \in Invocations |-> <<>>]
    /\ questions_per_type = [p \in Invocations |-> 0]
    /\ remaining = [p \in Invocations |-> 0]
    /\ probe_outcome = [p \in Invocations |-> NoProbe]
    /\ top_k = [p \in Invocations |-> 0]
    /\ embed_idx = [p \in Invocations |-> 0]
    /\ query_embedding = [p \in Invocations |-> <<>>]
    /\ chunk_embeddings = [p \in Invocations |-> <<>>]
    /\ relevant_chunks = [p \in Invocations |-> <<>>]
    /\ type_idx = [p \in Invocations |-> 0]
    /\ all_questions = [p \in Invocations |-> <<>>]
    /\ previous_questions = [p \in Invocations |-> {}]
    /\ connection_errors = [p \in Invocations |-> <<>>]
    /\ result = [p \in Invocations |-> NoResult]
    /\ work = [p \in Invocations |-> {}]
    /\ embed_call = [p \in Invocations |-> NoEmbedCall]
    /\ retrieval = [p \in Invocations |-> NoRetrieval]
    /\ quotas = [p \in Invocations |-> <<>>]
    /\ gen_log = [p \in Invocations |-> <<>>]
    /\ last_gen = [p \in Invocations |-> NoGen]
    /\ prompt = [p \in Invocations |-> NoPrompt]
    /\ questions_text = [p \in Invocations |-> <<>>]
    /\ ck_pc = "idle"
    /\ ck_text = <<>>
    /\ ck_size = 0
    /\ ck_overlap = 0
    /\ ck_start = 0
    /\ ck_chunks = <<>>
    /\ ck_starts = <<>>
    /\ gb_pc = "idle"
    /\ gb_type = ""
    /\ gb_num = 0
    /\ gb_answers = FALSE
    /\ gb_outcome = NoOutcome
    /\ gb_batch = Returned(<<>>)

(***************************************************************************)
(* generate_questions_from_pdf                                             *)
(***************************************************************************)
\* A request arrives: the locals are fresh and the availability probe is sent.
Start(p, Documents, Nums, TypeLists, Answers) ==
    /\ pc[p] = "NotStarted"
    /\ \E d \in Documents, n \in Nums, q \in TypeLists, a \in Answers :
        /\ pdf' = [pdf EXCEPT ![p] = d]
        /\ num_questions' = [num_questions EXCEPT ![p] = n]
        /\ question_types' = [question_types EXCEPT ![p] = q]
        /\ include_answers' = [include_answers EXCEPT ![p] = a]
    /\ pc' = [pc EXCEPT ![p] = "CheckingAvailability"]
    /\ UNCHANGED unitVars
    /\ UNCHANGED <<embeddings_api_failed, frontVars, remaining, retrVars, genVars,
                   result, embed_failed_once, embed_call, retrieval, work>>

\* check_ollama_available returns; a false answer raises the 503.
ProbeReturn(p, Outcomes) ==
    /\ pc[p] = "CheckingAvailability"
    /\ \E o \in Outcomes :
        LET available == check_ollama_available(o)
            next == next_after_probe(available)
        IN  /\ ollama_available' = [ollama_available EXCEPT ![p] = available]
            /\ probe_outcome' = [probe_outcome EXCEPT ![p] = o]
            /\ pc' = [pc EXCEPT ![p] = next]
            /\ result' = [result EXCEPT ![p] =
                            IF next = "Failed"
                            THEN [status |-> HTTP_503, detail |-> "ollama_unavailable",
                                  count |-> 0]
                            ELSE @]
    /\ UNCHANGED unitVars
    /\ UNCHANGED <<embeddings_api_failed, inputVars, cleaned_text, chunks,
                   normalized_types, questions_per_type, retrVars, genVars,
                   embed_failed_once, embed_call, retrieval, work>>

\* text_content: every page's text followed by "\n".
RECURSIVE ExtractText(_)
ExtractText(pages) ==
    IF pages = <<>> THEN <<>> ELSE Head(pages) \o <<NL>> \o ExtractText(Tail(pages))

\* if not text_content.strip(): raise HTTPException(400)
has_readable_text(text_content) == Strip(text_content) # <<>>

\* pdf.read() returns: steps 1 to 5, up to the call of retrieve_relevant_chunks.
\* top_k=min(3, len(chunks))
top_k_of(document_chunks) == Min(TopK, Len(document_chunks))

ReadReturn(p) ==
    /\ pc[p] = "Reading"
    /\ probe_outcome' = [probe_outcome EXCEPT ![p] = NoProbe]
    /\ \E text_content \in {ExtractText(pdf[p].pages)} :
       \E cleaned \in {clean_text(text_content)} :
       \E normalized \in {normalized_types_of(question_types[p])} :
       LET Fail(status, detail, done) ==
               /\ pc' = [pc EXCEPT ![p] = "Failed"]
               /\ result' = [result EXCEPT ![p] =
                                [status |-> status, detail |-> detail, count |-> 0]]
               /\ work' = [work EXCEPT ![p] = done]
       IN  IF pdf[p].kind = "unreadable"
           THEN \* PdfReader raises: the outer handler turns it into a 500
                /\ Fail(HTTP_500, "internal", {"read"})
                /\ UNCHANGED <<cleaned_text, chunks, normalized_types,
                               questions_per_type, remaining, top_k>>
           ELSE IF ~has_readable_text(text_content)
           THEN /\ Fail(HTTP_400, "no_text", {"read", "extract"})
                /\ UNCHANGED <<cleaned_text, chunks, normalized_types,
                               questions_per_type, remaining, top_k>>
           ELSE /\ cleaned_text' = [cleaned_text EXCEPT ![p] = cleaned]
                /\ chunks' = [chunks EXCEPT ![p] =
                                chunk_text(cleaned, ChunkSize, ChunkOverlap)]
                /\ normalized_types' = [normalized_types EXCEPT ![p] = normalized]
                /\ IF normalized = <<>>
                   THEN /\ Fail(HTTP_400, "no_types",
                                {"read", "extract", "clean", "chunk"})
                        /\ UNCHANGED <<questions_per_type, remaining, top_k>>
                   ELSE /\ questions_per_type' = [questions_per_type EXCEPT ![p] =
                               questions_per_type_of(num_questions[p], Len(normalized))]
                        /\ remaining' = [remaining EXCEPT ![p] =
                               remaining_of(num_questions[p], Len(normalized))]
                        /\ top_k' = [top_k EXCEPT ![p] = top_k_of(chunks'[p])]
                        /\ pc' = [pc EXCEPT ![p] = "Embedding"]
                        /\ work' = [work EXCEPT ![p] =
                                       {"read", "extract", "clean", "chunk"}]
                        /\ UNCHANGED result
    /\ UNCHANGED unitVars
    /\ UNCHANGED <<embeddings_api_failed, inputVars, ollama_available, embed_idx,
                   query_embedding, chunk_embeddings, relevant_chunks,
                   type_idx, all_questions, previous_questions, connection_errors,
                   quotas, gen_log, last_gen, prompt, questions_text,
                   embed_failed_once, embed_call, retrieval>>

\* retrieve_relevant_chunks goes on with the vector get_embedding returned
\* for the query (embed_idx 0) or for chunk embed_idx; when it returns, the
\* generation loop is entered.
EmbeddingReturned(p, vector) ==
    LET RetrievalDone(top, path, embeddings) ==
            /\ relevant_chunks' = [relevant_chunks EXCEPT ![p] =
                                      relevant_or_first(top, chunks[p])]
            /\ retrieval' = [retrieval EXCEPT ![p] =
                   [path |-> path, returned |-> top,
                    scores |-> scores_of(query_embedding[p], embeddings),
                    embedded |-> [i \in 1..Len(embeddings) |-> embeddings[i] # <<>>]]]
            /\ embed_idx' = [embed_idx EXCEPT ![p] = 0]
            /\ query_embedding' = [query_embedding EXCEPT ![p] = <<>>]
            /\ chunk_embeddings' = [chunk_embeddings EXCEPT ![p] = <<>>]
            /\ pc' = [pc EXCEPT ![p] = "Generating"]
    IN  /\ UNCHANGED top_k
        /\ IF embed_idx[p] = 0
           THEN IF vector = <<>>
                THEN RetrievalDone(evenly_distributed(chunks[p], top_k[p]),
                                   "fallback", <<>>)
                ELSE IF chunks[p] = <<>>
                THEN RetrievalDone(<<>>, "similarity", <<>>)
                ELSE /\ query_embedding' = [query_embedding EXCEPT ![p] = vector]
                     /\ embed_idx' = [embed_idx EXCEPT ![p] = 1]
                     /\ pc' = [pc EXCEPT ![p] = "Embedding"]
                     /\ UNCHANGED <<chunk_embeddings, relevant_chunks, retrieval>>
           ELSE LET embeddings == Append(chunk_embeddings[p], vector)
                IN  IF embed_idx[p] = Len(chunks[p])
                    THEN RetrievalDone(top_chunks_of(chunks[p], query_embedding[p],
                                                     embeddings, top_k[p]),
                                       "similarity", embeddings)
                    ELSE /\ chunk_embeddings' = [chunk_embeddings EXCEPT ![p] = embeddings]
                         /\ embed_idx' = [embed_idx EXCEPT ![p] = @ + 1]
                         /\ pc' = [pc EXCEPT ![p] = "Embedding"]
                         /\ UNCHANGED <<query_embedding, relevant_chunks, retrieval>>

\* A mutant of breaker_open: get_embedding never fails fast.
breaker_open_never(failed) == FALSE

\* if _embeddings_api_failed: return []
breaker_open(failed) == failed

\* get_embedding is called: with the breaker flag set it returns [] at once,
\* otherwise it posts the request.
EmbedCall(p) ==
    /\ pc[p] = "Embedding"
    /\ work' = [work EXCEPT ![p] = @ \cup {"embed"}]
    /\ IF breaker_open(embeddings_api_failed)
       THEN /\ EmbeddingReturned(p, <<>>)
            /\ embed_call' = [embed_call EXCEPT ![p] =
                                 [started |-> TRUE, after_failure |-> embed_failed_once,
                                  requested |-> FALSE, returned |-> TRUE,
                                  vector |-> <<>>, calls |-> @.calls + 1,
                                  query_empty |-> (embed_idx[p] = 0 \/ @.query_empty),
                                  kind |-> "skipped", failed |-> @.failed]]
       ELSE /\ pc' = [pc EXCEPT ![p] = "AwaitEmbedding"]
            /\ embed_call' = [embed_call EXCEPT ![p] =
                                 [started |-> TRUE, after_failure |-> embed_failed_once,
                                  requested |-> TRUE, returned |-> FALSE,
                                  vector |-> <<>>, calls |-> @.calls + 1,
                                  query_empty |-> @.query_empty,
                                  kind |-> "pending", failed |-> @.failed]]
            /\ UNCHANGED <<retrVars, retrieval>>
    /\ UNCHANGED unitVars
    /\ UNCHANGED <<embeddings_api_failed, embed_failed_once, inputVars, frontVars,
                   genVars, result>>

\* The embedding request completes: a failure sets the breaker flag.
EmbedReturn(p, Outcomes) ==
    /\ pc[p] = "AwaitEmbedding"
    /\ \E o \in Outcomes :
        /\ embeddings_api_failed' = embeddings_api_failed_after(embeddings_api_failed, o)
        /\ embed_failed_once' = (embed_failed_once \/ o.kind \in {"non200", "exception"})
        /\ EmbeddingReturned(p, embedding_returned(o))
        /\ embed_call' = [embed_call EXCEPT ![p] =
                             [@ EXCEPT !.returned = TRUE,
                                       !.vector = embedding_returned(o),
                                       !.kind = o.kind,
                                       !.failed = (@ \/ o.kind \in {"non200", "exception"}),
                                       !.query_empty =
                                           IF embed_idx[p] = 0
                                           THEN embedding_returned(o) = <<>>
                                           ELSE @]]
    /\ UNCHANGED unitVars
    /\ UNCHANGED <<inputVars, frontVars, genVars, result, work>>

\* The loop of step 7 takes the next type and awaits generate_question_batch.
GenCall(p) ==
    /\ pc[p] = "Generating"
    /\ type_idx[p] < Len(normalized_types[p])
    /\ quotas' = [quotas EXCEPT ![p] =
                     Append(@, questions_to_generate(questions_per_type[p], remaining[p]))]
    /\ remaining' = [remaining EXCEPT ![p] = remaining_after(@)]
    /\ work' = [work EXCEPT ![p] = @ \cup {"generate"}]
    /\ prompt' = [prompt EXCEPT ![p] =
                     prompt_of(context_text_of(relevant_chunks[p]),
                               normalized_types[p][type_idx[p] + 1],
                               questions_to_generate(questions_per_type[p], remaining[p]),
                               previous_questions[p], include_answers[p])]
    /\ embed_call' = [embed_call EXCEPT ![p] = NoEmbedCall]
    /\ retrieval' = [retrieval EXCEPT ![p] = NoRetrieval]
    /\ pc' = [pc EXCEPT ![p] = "AwaitGeneration"]
    /\ UNCHANGED unitVars
    /\ UNCHANGED <<embeddings_api_failed, inputVars, frontVars, retrVars, type_idx,
                   all_questions, previous_questions, connection_errors, gen_log,
                   last_gen, questions_text, result, embed_failed_once>>

\* generate_question_batch returns or raises; after the last type, step 8.
GenReturn(p, Outcomes) ==
    /\ pc[p] = "AwaitGeneration"
    /\ \E o \in Outcomes :
       \E batch \in {generate_question_batch(o, normalized_types[p][type_idx[p] + 1],
                                             quotas[p][Len(quotas[p])],
                                             include_answers[p])} :
        LET errors == IF batch.raised = "ConnectError"
                      THEN Append(connection_errors[p], CONNECT_ERROR_MSG)
                      ELSE connection_errors[p]
            questions == extended(all_questions[p], batch.questions)
            last == type_idx[p] + 1 = Len(normalized_types[p])
            outcome == aggregate(questions, errors)
        IN  /\ connection_errors' = [connection_errors EXCEPT ![p] = errors]
            /\ all_questions' = [all_questions EXCEPT ![p] = questions]
            /\ previous_questions' = [previous_questions EXCEPT ![p] =
                                         @ \cup fingerprints(batch.questions)]
            /\ gen_log' = [gen_log EXCEPT ![p] =
                              Append(@, [connect_error |-> o.kind = "ConnectError",
                                         produced |-> Len(batch.questions),
                                         q_type |-> normalized_types[p][type_idx[p] + 1],
                                         questions |-> batch.questions])]
            /\ prompt' = [prompt EXCEPT ![p] = NoPrompt]
            /\ questions_text' = [questions_text EXCEPT ![p] =
                                     IF last /\ outcome.status = 200
                                     THEN questions_text_of(questions) ELSE @]
            /\ last_gen' = [last_gen EXCEPT ![p] =
                               [kind |-> o.kind, status |-> o.status,
                                raised |-> batch.raised]]
            /\ type_idx' = [type_idx EXCEPT ![p] = @ + 1]
            /\ pc' = [pc EXCEPT ![p] =
                         IF ~last THEN "Generating"
                         ELSE IF outcome.status = 200 THEN "Done" ELSE "Failed"]
            /\ result' = [result EXCEPT ![p] = IF last THEN outcome ELSE @]
    /\ UNCHANGED unitVars
    /\ UNCHANGED <<embeddings_api_failed, inputVars, frontVars, retrVars, remaining,
                   quotas, embed_failed_once, embed_call, retrieval, work>>

\* The response is sent; the next request starts from fresh locals.
Respond(p) ==
    /\ pc[p] \in {"Done", "Failed"}
    /\ pc' = [pc EXCEPT ![p] = "NotStarted"]
    /\ pdf' = [pdf EXCEPT ![p] = NoPdf]
    /\ num_questions' = [num_questions EXCEPT ![p] = 0]
    /\ question_types' = [question_types EXCEPT ![p] = <<>>]
    /\ include_answers' = [include_answers EXCEPT ![p] = FALSE]
    /\ ollama_available' = [ollama_available EXCEPT ![p] = FALSE]
    /\ cleaned_text' = [cleaned_text EXCEPT ![p] = <<>>]
    /\ chunks' = [chunks EXCEPT ![p] = <<>>]
    /\ normalized_types' = [normalized_types EXCEPT ![p] = <<>>]
    /\ questions_per_type' = [questions_per_type EXCEPT ![p] = 0]
    /\ remaining' = [remaining EXCEPT ![p] = 0]
    /\ probe_outcome' = [probe_outcome EXCEPT ![p] = NoProbe]
    /\ top_k' = [top_k EXCEPT ![p] = 0]
    /\ relevant_chunks' = [relevant_chunks EXCEPT ![p] = <<>>]
    /\ type_idx' = [type_idx EXCEPT ![p] = 0]
    /\ all_questions' = [all_questions EXCEPT ![p] = <<>>]
    /\ previous_questions' = [previous_questions EXCEPT ![p] = {}]
    /\ connection_errors' = [connection_errors EXCEPT ![p] = <<>>]
    /\ result' = [result EXCEPT ![p] = NoResult]
    /\ work' = [work EXCEPT ![p] = {}]
    /\ quotas' = [quotas EXCEPT ![p] = <<>>]
    /\ gen_log' = [gen_log EXCEPT ![p] = <<>>]
    /\ last_gen' = [last_gen EXCEPT ![p] = NoGen]
    /\ prompt' = [prompt EXCEPT ![p] = NoPrompt]
    /\ questions_text' = [questions_text EXCEPT ![p] = <<>>]
    /\ UNCHANGED unitVars
    /\ UNCHANGED <<embeddings_api_failed, embed_failed_once, embed_call, retrieval, embed_idx,
                   query_embedding, chunk_embeddings>>

(***************************************************************************)
(* Inputs and specifications                                               *)
(***************************************************************************)
\* Characters of the extracted page texts.
PageAlphabet == {"a", "1"}
\* The uploaded documents: unreadable, without pages, or one page of text.
Pdfs ==
    {[kind |-> "unreadable", pages |-> <<>>], [kind |-> "pages", pages |-> <<>>]}
        \cup {[kind |-> "pages", pages |-> <<t>>] : t \in SeqsUpTo(PageAlphabet, MaxPageLen)}
\* One page of plain text.
PlainPdf == [kind |-> "pages", pages |-> <<<<"a">>>>]

\* Spec: num_questions is the least the endpoint admits, or MaxNum.
Nums == {NumQuestionsMin, MaxNum}
\* Spec: question_types has 1..MaxTypes items.
PipelineTypeNames == {"mcq", "tf", "trueFalse", "essay"}
Requests == SeqsUpTo(PipelineTypeNames, MaxTypes) \ {<<>>}

\* Spec: requests served one after another by one process.
Next ==
    \/ Start(1, Pdfs, Nums, Requests, {FALSE})
    \/ ProbeReturn(1, ProbeOutcomes)
    \/ ReadReturn(1)
    \/ EmbedCall(1)
    \/ EmbedReturn(1, EmbedOutcomes)
    \/ GenCall(1)
    \/ GenReturn(1, GenOutcomes)
    \/ Respond(1)

Spec == Init /\ [][Next]_vars

\* SpecFair: requests of one or two types on a plain or an unreadable
\* document, with every outcome of the probe, of the embedding calls and of
\* the generation calls; every awaited network call returns (with an answer,
\* a failure or a timeout) and the event loop runs the coroutine on.  A
\* generation call that nothing else ends is ended by the timeout of
\* asyncio.wait_for.
FairPdfs == {PlainPdf, [kind |-> "unreadable", pages |-> <<>>]}
FairRequests == {<<"tf">>, <<"mcq", "tf">>}
FairGenOutcomes ==
    GenFailures \cup {[kind |-> "response", status |-> 200, response |-> RESP_FIVE]}
NextFair ==
    \/ Start(1, FairPdfs, {NumQuestionsMin}, FairRequests, {FALSE})
    \/ ProbeReturn(1, ProbeOutcomes)
    \/ ReadReturn(1)
    \/ EmbedCall(1)
    \/ EmbedReturn(1, EmbedOutcomes)
    \/ GenCall(1)
    \/ GenReturn(1, FairGenOutcomes)
    \/ Respond(1)
GenTimeouts == {o \in GenFailures : o.kind = "OuterTimeout"}
Fairness ==
    /\ WF_vars(ProbeReturn(1, ProbeOutcomes))
    /\ WF_vars(ReadReturn(1))
    /\ WF_vars(EmbedCall(1))
    /\ WF_vars(EmbedReturn(1, EmbedOutcomes))
    /\ WF_vars(GenCall(1))
    /\ WF_vars(GenReturn(1, GenTimeouts))

SpecFair == Init /\ [][NextFair]_vars /\ Fairness

\* SpecConc: NumInv requests of one plain document served concurrently; the
\* backends answer in every way, the generation backend with a status.
ConcGenOutcomes == {o \in GenOutcomes : o.kind = "response" /\ o.response = <<>>}
NextConc ==
    \E p \in Invocations :
        \/ Start(p, {PlainPdf}, {NumQuestionsMin}, {<<"mcq">>}, {FALSE})
        \/ ProbeReturn(p, ProbeOutcomes)
        \/ ReadReturn(p)
        \/ EmbedCall(p)
        \/ EmbedReturn(p, EmbedOutcomes)
        \/ GenCall(p)
        \/ GenReturn(p, ConcGenOutcomes)
        \/ Respond(p)

SpecConc == Init /\ [][NextConc]_vars

\* SpecPlan: one request at a time with every num_questions the endpoint
\* admits and 1..MaxPlanTypes items in question_types; the backends answer
\* in one way each.
PlanTypeNames == {"mcq", "trueFalse", "shortAnswer", "essay"}
PlanRequests == SeqsUpTo(PlanTypeNames, MaxPlanTypes) \ {<<>>}
PlanProbeOutcomes == {[kind |-> "response", status |-> 200]}
PlanEmbedOutcomes == {[kind |-> "exception", embedding |-> <<>>]}
PlanGenOutcomes == {[kind |-> "response", status |-> 200, response |-> RESP_FIVE]}
NextPlan ==
    \/ Start(1, {PlainPdf}, NumQuestionsMin..NumQuestionsMax, PlanRequests, {FALSE})
    \/ ProbeReturn(1, PlanProbeOutcomes)
    \/ ReadReturn(1)
    \/ EmbedCall(1)
    \/ EmbedReturn(1, PlanEmbedOutcomes)
    \/ GenCall(1)
    \/ GenReturn(1, PlanGenOutcomes)
    \/ Respond(1)

SpecPlan == Init /\ [][NextPlan]_vars

\* SpecTypes: requests of one plain document whose question_types are up to
\* MaxRawTypes items written in any of the ways of RawTypeNames, served with
\* the backends of SpecPlan.
TypeRequests == SeqsUpTo(RawTypeNames, MaxRawTypes) \ {<<>>}
NextTypes ==
    \/ Start(1, {PlainPdf}, {NumQuestionsMin}, TypeRequests, {FALSE})
    \/ ProbeReturn(1, PlanProbeOutcomes)
    \/ ReadReturn(1)
    \/ EmbedCall(1)
    \/ EmbedReturn(1, PlanEmbedOutcomes)
    \/ GenCall(1)
    \/ GenReturn(1, PlanGenOutcomes)
    \/ Respond(1)

SpecTypes == Init /\ [][NextTypes]_vars

\* SpecRetrieve: retrieve_relevant_chunks called on its own, with chunk lists
\* and values of top_k the pipeline's one document does not give.
RetrieveCall(p, ChunkLists, TopKs) ==
    /\ pc[p] = "NotStarted"
    /\ \E document_chunks \in ChunkLists, k \in TopKs :
        /\ chunks' = [chunks EXCEPT ![p] = document_chunks]
        /\ top_k' = [top_k EXCEPT ![p] = k]
    /\ pc' = [pc EXCEPT ![p] = "Embedding"]
    /\ UNCHANGED unitVars
    /\ UNCHANGED <<embeddings_api_failed, inputVars, ollama_available, cleaned_text,
                   normalized_types, questions_per_type, probe_outcome, remaining,
                   embed_idx, query_embedding, chunk_embeddings, relevant_chunks,
                   genVars, result, embed_failed_once, embed_call, retrieval, work>>

\* The caller has the returned chunks; the next call starts afresh.
RetrieveReturn(p) ==
    /\ pc[p] = "Generating"
    /\ normalized_types[p] = <<>>
    /\ pc' = [pc EXCEPT ![p] = "NotStarted"]
    /\ chunks' = [chunks EXCEPT ![p] = <<>>]
    /\ top_k' = [top_k EXCEPT ![p] = 0]
    /\ relevant_chunks' = [relevant_chunks EXCEPT ![p] = <<>>]
    /\ embed_call' = [embed_call EXCEPT ![p] = NoEmbedCall]
    /\ retrieval' = [retrieval EXCEPT ![p] = NoRetrieval]
    /\ work' = [work EXCEPT ![p] = {}]
    /\ UNCHANGED unitVars
    /\ UNCHANGED <<embeddings_api_failed, inputVars, ollama_available, cleaned_text,
                   normalized_types, questions_per_type, probe_outcome, remaining,
                   embed_idx, query_embedding, chunk_embeddings,
                   genVars, result, embed_failed_once>>

\* Chunks that differ from one another, so that a returned chunk tells its
\* index.
ChunkNames == <<"a", "b", "c", "d", "e", "f", "g", "h">>
RetrieveChunkLists ==
    {[i \in 1..n |-> <<ChunkNames[i]>>] : n \in 0..MaxRetrieveChunks}
RetrieveEmbedOutcomes ==
    {[kind |-> "ok", embedding |-> <<1, 0>>],
     [kind |-> "ok", embedding |-> <<0, 1>>],
     [kind |-> "ok", embedding |-> <<-1, 0>>],
     [kind |-> "ok_no_field", embedding |-> <<>>],
     [kind |-> "non200", embedding |-> <<>>],
     [kind |-> "exception", embedding |-> <<>>]}

NextRetrieve ==
    \/ RetrieveCall(1, RetrieveChunkLists, 1..MaxTopK)
    \/ EmbedCall(1)
    \/ EmbedReturn(1, RetrieveEmbedOutcomes)
    \/ RetrieveReturn(1)

SpecRetrieve == Init /\ [][NextRetrieve]_vars

\* SpecRetrieveConc: NumInv concurrent calls of retrieve_relevant_chunks on
\* one list of four chunks, with an embedding backend that answers or fails.
ConcChunkLists == {[i \in 1..4 |-> <<ChunkNames[i]>>]}
ConcTopKs == {2}
ConcEmbedOutcomes ==
    {[kind |-> "ok", embedding |-> <<1, 0>>],
     [kind |-> "exception", embedding |-> <<>>]}
NextRetrieveConc ==
    \E p \in Invocations :
        \/ RetrieveCall(p, ConcChunkLists, ConcTopKs)
        \/ EmbedCall(p)
        \/ EmbedReturn(p, ConcEmbedOutcomes)
        \/ RetrieveReturn(p)

SpecRetrieveConc == Init /\ [][NextRetrieveConc]_vars

(***************************************************************************)
(* chunk_text called on its own                                            *)
(***************************************************************************)
\* chunk_text(text, chunk_size, overlap) is called: a text that fits is
\* returned as the only chunk, otherwise the loop is entered at start = 0.
ChunkCall(Texts, Sizes, Overlaps) ==
    /\ ck_pc = "idle"
    /\ \E text \in Texts, chunk_size \in Sizes, overlap \in Overlaps :
        /\ ck_text' = text
        /\ ck_size' = chunk_size
        /\ ck_overlap' = overlap
        /\ ck_start' = 0
        /\ ck_starts' = <<>>
        /\ IF Len(text) <= chunk_size
           THEN ck_pc' = "returned" /\ ck_chunks' = <<text>>
           ELSE ck_pc' = "loop" /\ ck_chunks' = <<>>
    /\ UNCHANGED <<pipelineVars, batchVars>>

\* One test of the while condition and, if it holds, one pass of the body.
\* A call that has not returned after MaxChunkIter chunks is followed no further.
ChunkStep ==
    /\ ck_pc = "loop"
    /\ Len(ck_chunks) < MaxChunkIter
    /\ IF ~(ck_start < Len(ck_text))
       THEN /\ ck_pc' = "returned"
            /\ UNCHANGED <<ck_start, ck_chunks, ck_starts>>
       ELSE LET end == chunk_end(ck_text, ck_start, ck_size)
            IN  /\ ck_chunks' = Append(ck_chunks, Slice(ck_text, ck_start, end))
                /\ ck_starts' = Append(ck_starts, ck_start)
                /\ IF loop_breaks(ck_text, end)
                   THEN ck_pc' = "returned" /\ UNCHANGED ck_start
                   ELSE ck_pc' = "loop" /\ ck_start' = next_start(end, ck_overlap)
    /\ UNCHANGED <<ck_text, ck_size, ck_overlap, pipelineVars, batchVars>>

\* The caller takes the chunks.
ChunkReturn ==
    /\ ck_pc = "returned"
    /\ ck_pc' = "idle"
    /\ ck_text' = <<>>
    /\ ck_size' = 0
    /\ ck_overlap' = 0
    /\ ck_start' = 0
    /\ ck_chunks' = <<>>
    /\ ck_starts' = <<>>
    /\ UNCHANGED <<pipelineVars, batchVars>>

\* SpecChunk: chunk_text on every text of up to MaxTextLen characters with
\* chunk sizes 1..MaxChunkSize and overlaps 0..MaxChunkSize, and on a text of
\* LongTextLen characters with the chunk size and overlap of the pipeline.
TextAlphabet == {"a", "b"}
ChunkTexts == SeqsUpTo(TextAlphabet, MaxTextLen)
LongText == [i \in 1..LongTextLen |-> IF i % 2 = 1 THEN "a" ELSE "b"]
NextChunk ==
    \/ ChunkCall(ChunkTexts, 1..MaxChunkSize, 0..MaxChunkSize)
    \/ ChunkCall({LongText}, {ChunkSize}, {ChunkOverlap})
    \/ ChunkStep
    \/ ChunkReturn

SpecChunk == Init /\ [][NextChunk]_vars

(***************************************************************************)
(* generate_question_batch called on its own                               *)
(***************************************************************************)
\* generate_question_batch(chunk, q_type, num_questions, ...) is called and
\* its request is sent.
BatchCall(Types, Counts, Answers) ==
    /\ gb_pc = "idle"
    /\ \E q_type \in Types, num \in Counts, a \in Answers :
        /\ gb_type' = q_type
        /\ gb_num' = num
        /\ gb_answers' = a
    /\ gb_pc' = "awaiting"
    /\ UNCHANGED <<gb_outcome, gb_batch, pipelineVars, chunkVars>>

\* The backend answers, fails or times out, and the call returns or raises.
BatchReturn(Outcomes) ==
    /\ gb_pc = "awaiting"
    /\ \E o \in Outcomes :
        /\ gb_outcome' = o
        /\ gb_batch' = generate_question_batch(o, gb_type, gb_num, gb_answers)
    /\ gb_pc' = "returned"
    /\ UNCHANGED <<gb_type, gb_num, gb_answers, pipelineVars, chunkVars>>

\* The caller takes the batch.
BatchDone ==
    /\ gb_pc = "returned"
    /\ gb_pc' = "idle"
    /\ gb_type' = ""
    /\ gb_num' = 0
    /\ gb_answers' = FALSE
    /\ gb_outcome' = NoOutcome
    /\ gb_batch' = Returned(<<>>)
    /\ UNCHANGED <<pipelineVars, chunkVars>>

\* The text of a segment after its one-letter question: the four options,
\* with or without an answer line, three options, three options with "d)"
\* inside the third, and no option at all.
BODY_FULL ==
    <<"\n", "A", ")", " ", "1", "\n", "B", ")", " ", "2", "\n", "C", ")", " ",
     "3", "\n", "D", ")", " ", "4">>
BODY_FULL_ANSWER ==
    <<"\n", "A", ")", " ", "1", "\n", "B", ")", " ", "2", "\n", "C", ")", " ",
     "3", "\n", "D", ")", " ", "4", "\n", "A", "N", "S", "W", "E", "R", ":",
     " ", "B">>
BODY_NO_A ==
    <<"\n", "B", ")", " ", "2", "\n", "C", ")", " ", "3", "\n", "D", ")", " ",
     "4">>
BODY_NO_D ==
    <<"\n", "A", ")", " ", "1", "\n", "B", ")", " ", "2", "\n", "C", ")", " ",
     "3">>
BODY_INLINE_D ==
    <<"\n", "A", ")", " ", "1", "\n", "B", ")", " ", "2", "\n", "C", ")", " ",
     "3", " ", "d", ")", " ", "4">>
BODY_PLAIN == <<>>
BODY_PLAIN_ANSWER ==
    <<"\n", "A", "N", "S", "W", "E", "R", ":", " ", "T", "r", "u", "e">>
SegmentBodies == {BODY_FULL, BODY_FULL_ANSWER, BODY_NO_A, BODY_NO_D, BODY_INLINE_D,
                  BODY_PLAIN, BODY_PLAIN_ANSWER}
\* The question of the k-th segment of a response.
Stems == <<"x", "y", "z", "w">>

\* The response "Q: x<body 1>\nQ: y<body 2>..." from its k-th segment on.
RECURSIVE BuildResponse(_, _)
BuildResponse(bodies, k) ==
    IF k > Len(bodies) THEN <<>>
    ELSE (IF k > 1 THEN <<NL>> ELSE <<>>) \o <<"Q", ":", " ", Stems[k]>> \o bodies[k]
            \o BuildResponse(bodies, k + 1)

\* SpecBatch: generate_question_batch for every recognized type, 1..MaxBatchNum
\* questions, with and without answers, on every outcome of the backend, the
\* responses being those of 1..MaxSegments segments.
BatchResponses ==
    {BuildResponse(bodies, 1) : bodies \in SeqsUpTo(SegmentBodies, MaxSegments) \ {<<>>}}
BatchOutcomes ==
    GenFailures \cup GenStatuses
        \cup [kind : {"response"}, status : {200}, response : BatchResponses]
NextBatch ==
    \/ BatchCall(RecognizedTypes, 1..MaxBatchNum, BOOLEAN)
    \/ BatchReturn(BatchOutcomes)
    \/ BatchDone

SpecBatch == Init /\ [][NextBatch]_vars

\* SpecSegments: generate_question_batch for the true/false and the
\* short-answer type on responses of 1..MaxSegments segments, each of them a
\* statement, a statement with its answer, an answer line alone, or blank.
SEG_BLANK == <<>>
SEG_STATEMENT == <<"x">>
SEG_ANSWERED == <<"x", "\n", "A", "N", "S", "W", "E", "R", ":", " ", "T", "r", "u", "e">>
SEG_ANSWER_ONLY == <<"a", "n", "s", "w", "e", "r", ":", " ", "F", "a", "l", "s", "e">>
SegmentTexts == {SEG_BLANK, SEG_STATEMENT, SEG_ANSWERED, SEG_ANSWER_ONLY}

\* The response "Q: <segment 1>\nQ: <segment 2>..." from its k-th segment on.
RECURSIVE JoinSegments(_, _)
JoinSegments(segments, k) ==
    IF k > Len(segments) THEN <<>>
    ELSE (IF k > 1 THEN <<NL>> ELSE <<>>) \o <<"Q", ":", " ">> \o segments[k]
            \o JoinSegments(segments, k + 1)

SegmentResponses ==
    {JoinSegments(segments, 1) : segments \in SeqsUpTo(SegmentTexts, MaxSegments) \ {<<>>}}
SegmentOutcomes ==
    GenStatuses \cup [kind : {"response"}, status : {200}, response : SegmentResponses]
NextSegments ==
    \/ BatchCall({"truefalse", "shortanswer"}, 1..MaxBatchNum, BOOLEAN)
    \/ BatchReturn(SegmentOutcomes)
    \/ BatchDone

SpecSegments == Init /\ [][NextSegments]_vars

(***************************************************************************)
(* Properties                                                              *)
(***************************************************************************)
\* C1: once a get_embedding call has failed, every get_embedding call that
\* starts afterwards, in any invocation and under any interleaving, sends no
\* request and returns the empty vector.
BreakerLatch ==
    \A p \in Invocations :
        (embed_call[p].started /\ embed_call[p].after_failure)
            => /\ ~embed_call[p].requested
               /\ embed_call[p].returned
               /\ embed_call[p].vector = <<>>

\* A call started after the failure of another invocation's call, while
\* that other invocation is still running.
BreakerLatchWitness ==
    \E p, q \in Invocations :
        /\ p # q
        /\ embed_call[p].started /\ embed_call[p].after_failure
        /\ embed_call[p].returned
        /\ pc[q] \notin {"NotStarted", "CheckingAvailability", "Reading"}

\* C2: _embeddings_api_failed is monotonic: no step of any invocation takes
\* it from true back to false.
BreakerMonotonic == [][embeddings_api_failed => embeddings_api_failed']_vars

\* The flag is set while a request sent before the failure is still in
\* flight, and its answer is yet to be handled.
BreakerMonotonicWitness ==
    /\ embeddings_api_failed
    /\ \E p \in Invocations : pc[p] = "AwaitEmbedding"

\* The backend refused the connection for batch i of invocation p.
ConnectFailed(p, i) == gen_log[p][i].connect_error
\* Invocation p has been through its whole generation loop.
LoopOver(p) ==
    /\ pc[p] \in {"Done", "Failed"}
    /\ normalized_types[p] # <<>>
    /\ Len(gen_log[p]) = Len(normalized_types[p])

\* C3: a run of two types in which one type's attempt hit a connection error
\* and the other returned 5 questions succeeds with exactly these 5
\* questions and has the failed type on record.
PartialFailureRecorded ==
    \A p \in Invocations :
        (/\ LoopOver(p)
         /\ Len(gen_log[p]) = 2
         /\ \E i, j \in 1..2 : /\ ConnectFailed(p, i)
                               /\ ~ConnectFailed(p, j)
                               /\ gen_log[p][j].produced = 5)
            => /\ pc[p] = "Done"
               /\ result[p].status = 200
               /\ result[p].count = 5
               /\ Len(all_questions[p]) = 5
               /\ connection_errors[p] # <<>>

\* C4: a batch whose connection to the backend is refused is reported by
\* generate_question_batch as a connection error, is recorded in
\* connection_errors, and the loop goes on.
ConnectionErrorReported ==
    \A p \in Invocations :
        last_gen[p].kind = "ConnectError"
            => /\ last_gen[p].raised = "ConnectError"
               /\ connection_errors[p] # <<>>
               /\ pc[p] \in {"Generating", "AwaitGeneration", "Done", "Failed"}

\* C5: a run that produced no question fails with 503 if every attempt hit a
\* connection error, and with 500 if none did.
ZeroQuestionsReason ==
    \A p \in Invocations :
        (LoopOver(p) /\ all_questions[p] = <<>>)
            => /\ pc[p] = "Failed"
               /\ (\A i \in 1..Len(gen_log[p]) : ConnectFailed(p, i))
                     => result[p].status = HTTP_503
               /\ (\A i \in 1..Len(gen_log[p]) : ~ConnectFailed(p, i))
                     => result[p].status = HTTP_500

\* C6: an invocation whose probe answered false has failed with the 503 of
\* the probe at once, having read, extracted, chunked, embedded and generated
\* nothing, and the step that fails it leaves the breaker flag as it was.
ProbeFalseFailed(p) ==
    /\ pc[p] = "Failed"
    /\ result[p] = [status |-> HTTP_503, detail |-> "ollama_unavailable", count |-> 0]
    /\ work[p] = {}
ProbeFalseAborts ==
    /\ [](\A p \in Invocations :
            (pc[p] \notin {"NotStarted", "CheckingAvailability"} /\ ~ollama_available[p])
                => ProbeFalseFailed(p))
    /\ [][\A p \in Invocations :
            (pc[p] = "CheckingAvailability" /\ ~ollama_available'[p]
                /\ pc'[p] # pc[p])
                => /\ ProbeFalseFailed(p)'
                   /\ embeddings_api_failed' = embeddings_api_failed]_vars

\* The probe answered false once the breaker flag had been set by an earlier
\* request.
ProbeFalseAbortsWitness ==
    \E p \in Invocations :
        /\ pc[p] = "Failed"
        /\ ~ollama_available[p]
        /\ result[p].detail = "ollama_unavailable"
        /\ embeddings_api_failed

\* C7: an invocation whose text is empty after clean_text has failed with
\* the 400 of unreadable text and has chunked, embedded and generated nothing.
EmptyCleanedTextFails ==
    \A p \in Invocations :
        ("clean" \in work[p] /\ cleaned_text[p] = <<>>)
            => /\ pc[p] = "Failed"
               /\ result[p] = [status |-> HTTP_400, detail |-> "no_text", count |-> 0]
               /\ work[p] \cap {"chunk", "embed", "generate"} = {}

\* C8: a request of a readable document none of whose items maps to a
\* recognized type has failed with the 400 of invalid types and has issued
\* no generation call.
NoRecognizedType(items) ==
    \A i \in 1..Len(items) : type_mapping(StripLower(items[i])) \notin RecognizedTypes
UnrecognizedTypesRejected ==
    \A p \in Invocations :
        ("chunk" \in work[p] /\ NoRecognizedType(question_types[p]))
            => /\ pc[p] = "Failed"
               /\ result[p] = [status |-> HTTP_400, detail |-> "no_types", count |-> 0]
               /\ "generate" \notin work[p]

\* The quota the plan of C9 gives the i-th of n types out of total.
FairQuota(total, n, i) ==
    IF i <= total % n THEN (total \div n) + 1 ELSE total \div n

\* C9: with num_questions >= the number n of normalized types, the i-th batch
\* is asked for num_questions div n questions, plus one for the first
\* num_questions mod n types, and the quotas of a whole run sum to
\* num_questions.
QuotasFair ==
    \A p \in Invocations :
        LET n == Len(normalized_types[p])
        IN  (n > 0 /\ num_questions[p] >= n)
                => /\ \A i \in 1..Len(quotas[p]) :
                        quotas[p][i] = FairQuota(num_questions[p], n, i)
                   /\ Len(quotas[p]) = n => SumSeq(quotas[p]) = num_questions[p]

\* 10 questions over mcq, truefalse, shortanswer: the run asked for 4, 3, 3.
QuotasFairWitness ==
    \E p \in Invocations :
        /\ num_questions[p] = 10
        /\ normalized_types[p] = <<"mcq", "truefalse", "shortanswer">>
        /\ quotas[p] = <<4, 3, 3>>
        /\ pc[p] = "Done"

\* C10: with num_questions < the number n of normalized types, every batch
\* is asked for exactly 1 question, and the quotas of a whole run sum to n.
SmallTotalOneEach ==
    \A p \in Invocations :
        LET n == Len(normalized_types[p])
        IN  (n > 0 /\ num_questions[p] < n)
                => /\ \A i \in 1..Len(quotas[p]) : quotas[p][i] = 1
                   /\ Len(quotas[p]) = n
                        => SumSeq(quotas[p]) = Max(num_questions[p], n)

\* The call of chunk_text has a text longer than chunk_size and an overlap of
\* 0 to chunk_size - 1 characters.
ChunkedInWindows == Len(ck_text) > ck_size /\ 0 <= ck_overlap /\ ck_overlap < ck_size
\* The end (exclusive, 0-based) of the i-th window emitted.
WindowEnd(i) == ck_starts[i] + Len(ck_chunks[i])

\* C11: the chunks of a text longer than chunk_size are the text's windows
\* in document order: all but the last are chunk_size long, the last is
\* non-empty and no longer, and each starts overlap characters before the
\* end of the one before it, with which it shares exactly these characters.
ChunkWindows ==
    (ck_pc = "returned" /\ ChunkedInWindows)
        => LET n == Len(ck_chunks)
           IN  /\ n >= 1 /\ Len(ck_starts) = n
               /\ ck_starts[1] = 0
               /\ \A i \in 1..n :
                    ck_chunks[i] = SubSeq(ck_text, ck_starts[i] + 1, WindowEnd(i))
               /\ \A i \in 1..(n - 1) : Len(ck_chunks[i]) = ck_size
               /\ Len(ck_chunks[n]) >= 1 /\ Len(ck_chunks[n]) <= ck_size
               /\ \A i \in 1..(n - 1) :
                    /\ ck_starts[i + 1] = WindowEnd(i) - ck_overlap
                    /\ WindowEnd(i + 1) > WindowEnd(i)
                    /\ SubSeq(ck_chunks[i], ck_size - ck_overlap + 1, ck_size)
                         = SubSeq(ck_chunks[i + 1], 1, ck_overlap)

\* Three or more windows with an overlap, the last one shorter than chunk_size.
ChunkWindowsWitness ==
    /\ ck_pc = "returned" /\ ChunkedInWindows
    /\ Len(ck_chunks) >= 3
    /\ ck_overlap >= 1
    /\ Len(ck_chunks[Len(ck_chunks)]) < ck_size

\* chunk[-k:] for k >= 1
Suffix(chunk, k) == SubSeq(chunk, Max(1, Len(chunk) - k + 1), Len(chunk))
\* Concatenation of Piece(1), ..., Piece(n) from i on.
RECURSIVE Concat(_, _, _)
Concat(Piece(_), i, n) == IF i > n THEN <<>> ELSE Piece(i) \o Concat(Piece, i + 1, n)

\* C12 as stated: the chunks' suffixes of length chunk_size - overlap,
\* concatenated in order, are the text.
ChunkSuffixesRebuildText ==
    (ck_pc = "returned" /\ ChunkedInWindows)
        => LET Piece(i) == Suffix(ck_chunks[i], ck_size - ck_overlap)
           IN  Concat(Piece, 1, Len(ck_chunks)) = ck_text

\* C12 amended: the first chunk, followed by every later chunk without its
\* first overlap characters, is the text.
ChunksRebuildText ==
    (ck_pc = "returned" /\ ChunkedInWindows)
        => LET Piece(i) == IF i = 1 THEN ck_chunks[i]
                           ELSE SubSeq(ck_chunks[i], ck_overlap + 1, Len(ck_chunks[i]))
           IN  Concat(Piece, 1, Len(ck_chunks)) = ck_text

\* A text of both letters rebuilt from three or more overlapping chunks.
ChunksRebuildTextWitness ==
    /\ ck_pc = "returned" /\ ChunkedInWindows
    /\ Len(ck_chunks) >= 3
    /\ ck_overlap >= 1
    /\ \E i, j \in 1..Len(ck_text) : ck_text[i] # ck_text[j]

\* ceil((L - overlap) / (chunk_size - overlap))
WindowCount(L, chunk_size, overlap) ==
    (L - overlap + (chunk_size - overlap) - 1) \div (chunk_size - overlap)

\* C13: a text of L > chunk_size characters is returned in exactly
\* ceil((L - overlap) / (chunk_size - overlap)) chunks, and the window that
\* ends at L is the last one: once it is emitted the call returns.
ChunkCount ==
    ChunkedInWindows
        => /\ ck_pc = "returned"
                => Len(ck_chunks) = WindowCount(Len(ck_text), ck_size, ck_overlap)
           /\ \A i \in 1..Len(ck_chunks) :
                WindowEnd(i) = Len(ck_text)
                    => i = Len(ck_chunks) /\ ck_pc = "returned"
           /\ ck_pc = "returned" => WindowEnd(Len(ck_chunks)) = Len(ck_text)

\* 4000 characters with chunk_size 1500 and overlap 150: the three windows
\* [0,1500), [1350,2850) and [2700,4000).
ChunkCountWitness ==
    /\ ck_pc = "returned"
    /\ Len(ck_text) = 4000 /\ ck_size = 1500 /\ ck_overlap = 150
    /\ ck_starts = <<0, 1350, 2700>>
    /\ WindowEnd(1) = 1500 /\ WindowEnd(2) = 2850 /\ WindowEnd(3) = 4000

\* C14: a call with overlap >= chunk_size on a text longer than chunk_size is
\* rejected: it never enters the loop, in which its window start would not
\* advance.
ChunkingGuarded ==
    (ck_pc = "loop" /\ Len(ck_text) > ck_size) => ck_overlap < ck_size

\* The call of generate_question_batch got a 200 response from the backend.
BatchAnswered ==
    gb_pc = "returned" /\ gb_outcome.kind = "response" /\ gb_outcome.status = 200
\* The segments of the response: what follows each "Q:".
SegmentsOf(response_text) == Tail(SplitOnQ(response_text, 1, <<>>))
\* The segment has a line that starts with the option marker of `letter`.
HasOptionLine(segment, letter) ==
    \E i \in 1..(Len(segment) - 2) :
        segment[i] = NL /\ Upper(segment[i + 1]) = letter /\ segment[i + 2] = ")"
HasFourOptions(segment) == \A k \in 1..4 : HasOptionLine(segment, OptionLetters[k])
\* The one-letter question a returned question starts with.
StemOf(question) == question[Len(QUESTION_PREFIX) + 1]

\* C15: every question of a multiple-choice batch comes from a segment that
\* has all four option markers A), B), C) and D); a segment lacking one of
\* them is not in the batch.
McqNeedsFourOptions ==
    (BatchAnswered /\ gb_type = "mcq")
        => LET segs == SegmentsOf(gb_outcome.response)
           IN  \A n \in 1..Len(gb_batch.questions) :
                 \E k \in 1..Len(segs) :
                    /\ segs[k][1] = StemOf(gb_batch.questions[n])
                    /\ HasFourOptions(segs[k])

\* The questions of the segments that parse, in the order of the response.
AcceptedOf(response_text, q_type, answers) ==
    LET segs == SegmentsOf(response_text)
        Piece(k) == ParseSegment(segs[k], q_type, answers)
    IN  Concat(Piece, 1, Len(segs))
\* The place in the response of the segment a returned question starts with.
StemIndex(question) == CHOOSE k \in 1..Len(Stems) : Stems[k] = StemOf(question)

\* C16: a call returns at most num_questions questions, whatever the backend
\* did; on a 200 response they are the first num_questions of the segments
\* that parse, in the order of the response.
BatchIsFirstCount ==
    gb_pc = "returned"
        => /\ Len(gb_batch.questions) <= gb_num
           /\ ~BatchAnswered => gb_batch.questions = <<>>
           /\ BatchAnswered =>
                LET accepted == AcceptedOf(gb_outcome.response, gb_type, gb_answers)
                    batch == gb_batch.questions
                IN  /\ Len(batch) = Min(gb_num, Len(accepted))
                    /\ \A n \in 1..Len(batch) : batch[n] = accepted[n]
                    /\ \A m, n \in 1..Len(batch) :
                         m < n => StemIndex(batch[m]) < StemIndex(batch[n])

\* A multiple-choice response of two segments that parse, of which the call
\* was to return one.
BatchIsFirstCountWitness ==
    /\ BatchAnswered
    /\ gb_type = "mcq"
    /\ gb_num = 1
    /\ Len(AcceptedOf(gb_outcome.response, gb_type, gb_answers)) = 2
    /\ Len(gb_batch.questions) = 1


\* The latest batch of invocation p ran into its timeout: the request's own
\* (httpx) or the one of asyncio.wait_for.
TimedOut(p) == last_gen[p].kind \in {"TimeoutException", "OuterTimeout"}

\* C17: a type's attempt that exceeds its timeout yields zero questions and
\* raises nothing to the orchestrator, which goes on to the next planned
\* type, or, after the last type, to the aggregation, where the run fails
\* only if no type produced a question
TimeoutSkipsType ==
    \A p \in Invocations :
        TimedOut(p)
            => /\ last_gen[p].raised = "none"
               /\ Len(gen_log[p]) = type_idx[p]
               /\ type_idx[p] >= 1
               /\ gen_log[p][type_idx[p]].produced = 0
               /\ ~gen_log[p][type_idx[p]].connect_error
               /\ connection_errors[p] = <<>>
               /\ IF type_idx[p] < Len(normalized_types[p])
                  THEN pc[p] \in {"Generating", "AwaitGeneration"}
                  ELSE /\ pc[p] \in {"Done", "Failed"}
                       /\ pc[p] = "Failed" => all_questions[p] = <<>>

\* The first of two types timed out and the second type's batch is requested.
TimeoutSkipsTypeWitness ==
    \E p \in Invocations :
        /\ TimedOut(p)
        /\ Len(normalized_types[p]) = 2
        /\ type_idx[p] = 1
        /\ pc[p] = "AwaitGeneration"

\* C18: a run that reaches the aggregation ends Done exactly when at least
\* one question was produced and Failed exactly when none was; a type that
\* yielded nothing does not fail a run in which another type yielded some
RunOutcomeByQuestions ==
    \A p \in Invocations :
        LoopOver(p)
            => /\ pc[p] = "Done" <=> all_questions[p] # <<>>
               /\ pc[p] = "Failed" <=> all_questions[p] = <<>>
               /\ pc[p] = "Done" => /\ result[p].status = 200
                                    /\ result[p].count = Len(all_questions[p])
               /\ pc[p] = "Failed" => result[p].status \in {HTTP_500, HTTP_503}
               /\ (\E i \in 1..Len(gen_log[p]) : gen_log[p][i].produced > 0)
                      => pc[p] = "Done"

\* A run is Done although one of its two types yielded nothing.
RunOutcomeByQuestionsWitness ==
    \E p \in Invocations :
        /\ LoopOver(p)
        /\ pc[p] = "Done"
        /\ Len(gen_log[p]) = 2
        /\ \E i \in 1..2 : gen_log[p][i].produced = 0

\* C19: the probe returns true exactly when it received an HTTP response
\* with a status below 500, and false on a connection failure or any other
\* exception
ProbeTrueBelow500 ==
    \A p \in Invocations :
        probe_outcome[p].kind # "none"
            => (ollama_available[p]
                   <=> /\ probe_outcome[p].kind = "response"
                       /\ probe_outcome[p].status < HTTP_500)

\* The probe received a 404 and returned true.
ProbeTrueBelow500Witness ==
    \E p \in Invocations :
        /\ probe_outcome[p].kind = "response"
        /\ probe_outcome[p].status = 404
        /\ ollama_available[p]
        /\ pc[p] = "Reading"


\* The call of get_embedding for the query returned [] and
\* retrieve_relevant_chunks has returned.
FellBack(p) == embed_call[p].query_empty /\ pc[p] = "Generating"

\* C20: when the query embedding is empty and len(chunks) > top_k >= 1,
\* retrieve_relevant_chunks returns exactly top_k chunks, those at indices
\* 0, step, ..., (top_k - 1) * step with step = len(chunks) div top_k, in
\* this order, every index in range and no two equal, and it has called
\* get_embedding for the query only
EvenFallback ==
    \A p \in Invocations :
        embed_call[p].query_empty
            => /\ pc[p] = "Generating"
               /\ embed_call[p].calls = 1
               /\ (Len(chunks[p]) > top_k[p] /\ top_k[p] >= 1)
                     => LET step == Len(chunks[p]) \div top_k[p]
                        IN  /\ Len(relevant_chunks[p]) = top_k[p]
                            /\ \A i \in 0..(top_k[p] - 1) :
                                   /\ i * step < Len(chunks[p])
                                   /\ relevant_chunks[p][i + 1] = chunks[p][i * step + 1]
                            /\ \A i, j \in 1..top_k[p] :
                                   i # j => relevant_chunks[p][i] # relevant_chunks[p][j]

\* The fallback picked chunks 0 and 2 of five for top_k = 2.
EvenFallbackWitness ==
    \E p \in Invocations :
        /\ FellBack(p)
        /\ Len(chunks[p]) = 5
        /\ top_k[p] = 2
        /\ relevant_chunks[p] = <<chunks[p][1], chunks[p][3]>>


\* retrieve_relevant_chunks of invocation p has returned.
Retrieved(p) == retrieval[p].path # "none"
\* Sequence r holds at most k entries, at most as many as chs, all from chs.
BoundedSelection(r, chs, k) ==
    /\ Len(r) <= k
    /\ Len(r) <= Len(chs)
    /\ \A i \in 1..Len(r) : \E j \in 1..Len(chs) : r[i] = chs[j]

\* C21: on the similarity path and on the fallback path alike, whatever the
\* embedding calls did, retrieve_relevant_chunks returns chunks of its input,
\* at most top_k and at most len(chunks) of them
RetrievalBounded ==
    \A p \in Invocations :
        Retrieved(p)
            => /\ BoundedSelection(retrieval[p].returned, chunks[p], top_k[p])
               /\ BoundedSelection(relevant_chunks[p], chunks[p], top_k[p])

\* Three of five chunks were returned on the similarity path.
RetrievalBoundedWitness ==
    \E p \in Invocations :
        /\ retrieval[p].path = "similarity"
        /\ Len(chunks[p]) = 5
        /\ top_k[p] = 3
        /\ Len(retrieval[p].returned) = 3

\* The (1-based) index in chs of chunk c; the chunks of SpecRetrieve differ.
IndexOf(chs, c) == CHOOSE j \in 1..Len(chs) : chs[j] = c
\* Chunk a comes before chunk b in the list sorted by descending score,
\* ties in document order.
RankedBefore(sc, a, b) == sc[a] > sc[b] \/ (sc[a] = sc[b] /\ a < b)

\* C22: on the similarity path the returned chunks are the first top_k of
\* the chunks sorted by descending similarity, chunks of equal similarity in
\* document order
RankedBySimilarity ==
    \A p \in Invocations :
        retrieval[p].path = "similarity"
            => LET r == retrieval[p].returned
                   sc == retrieval[p].scores
                   n == Len(chunks[p])
                   pos == [i \in 1..Len(r) |-> IndexOf(chunks[p], r[i])]
               IN  /\ Len(sc) = n
                   /\ Len(r) = Min(top_k[p], n)
                   /\ \A i \in 1..(Len(r) - 1) : RankedBefore(sc, pos[i], pos[i + 1])
                   /\ \A j \in 1..n :
                          (\A i \in 1..Len(r) : pos[i] # j)
                              => \A i \in 1..Len(r) : RankedBefore(sc, pos[i], j)

\* Of three chunks scoring 0, 1, 1 the second and the third are returned,
\* in document order.
RankedBySimilarityWitness ==
    \E p \in Invocations :
        /\ retrieval[p].path = "similarity"
        /\ retrieval[p].scores = <<0, 1, 1>>
        /\ top_k[p] = 2
        /\ retrieval[p].returned = <<chunks[p][2], chunks[p][3]>>


\* The batches of a log, one after another.
RECURSIVE BatchesOf(_)
BatchesOf(log) ==
    IF log = <<>> THEN <<>> ELSE Head(log).questions \o BatchesOf(Tail(log))

\* text is the rendering of questions[i..]: "i. question", a blank line, the
\* rendering of the rest.
RECURSIVE NumberedFrom(_, _, _)
NumberedFrom(text, questions, i) ==
    LET item == Decimal(i) \o <<".", " ">> \o questions[i]
    IN  /\ Len(text) >= Len(item)
        /\ SubSeq(text, 1, Len(item)) = item
        /\ IF i = Len(questions) THEN Len(text) = Len(item)
           ELSE /\ Len(text) >= Len(item) + 2
                /\ SubSeq(text, Len(item) + 1, Len(item) + 2) = <<NL, NL>>
                /\ NumberedFrom(SubSeq(text, Len(item) + 3, Len(text)), questions, i + 1)

\* C23: within an invocation the batches are requested in the order of the
\* normalized types, one at a time (the next only when the one before has
\* returned), and the result's questions are the batches one after another
\* in that order, numbered 1..count with count the number of questions
BatchesInTypeOrder ==
    \A p \in Invocations :
        /\ Len(gen_log[p]) = type_idx[p]
        /\ \A i \in 1..Len(gen_log[p]) : gen_log[p][i].q_type = normalized_types[p][i]
        /\ IF pc[p] = "AwaitGeneration"
           THEN /\ type_idx[p] < Len(normalized_types[p])
                /\ Len(quotas[p]) = type_idx[p] + 1
                /\ prompt[p].template = template_of(normalized_types[p][type_idx[p] + 1])
                /\ prompt[p].num_questions = quotas[p][type_idx[p] + 1]
           ELSE /\ Len(quotas[p]) = type_idx[p]
                /\ prompt[p] = NoPrompt
        /\ all_questions[p] = BatchesOf(gen_log[p])
        /\ pc[p] = "Done"
              => /\ result[p].count = Len(all_questions[p])
                 /\ NumberedFrom(questions_text[p], all_questions[p], 1)

\* A run of two types is Done with the questions of both, which differ.
BatchesInTypeOrderWitness ==
    \E p \in Invocations :
        /\ pc[p] = "Done"
        /\ Len(gen_log[p]) = 2
        /\ gen_log[p][1].produced > 0
        /\ gen_log[p][2].produced > 0
        /\ gen_log[p][1].questions # gen_log[p][2].questions
        /\ result[p].count = gen_log[p][1].produced + gen_log[p][2].produced


\* The seen set holds the first 100 characters of every question so far.
SeenSetKept ==
    \A p \in Invocations : previous_questions[p] = fingerprints(all_questions[p])
\* No question of any batch is taken out of the result.
SeenSetFiltersNothing ==
    \A p \in Invocations : all_questions[p] = BatchesOf(gen_log[p])

\* C24: the first 100 characters of every accepted question are added to the
\* seen set after each batch, the prompt of every later batch of the run
\* names the set, and the set removes no question from the result
SeenSetInPrompts ==
    /\ SeenSetKept
    /\ SeenSetFiltersNothing
    /\ \A p \in Invocations :
           pc[p] = "AwaitGeneration" => prompt[p].seen = previous_questions[p]


\* The canonical type of an item as the request wrote it: the aliases of
\* each type in any case, surrounding blanks aside; any other item stands
\* for itself.
CanonicalType(raw) ==
    CASE raw \in {"mcq", " MCQ ", "multiplechoice", "MultipleChoice"} -> "mcq"
      [] raw \in {"trueFalse", "tf", "TF"} -> "truefalse"
      [] raw \in {"shortAnswer", "sa"} -> "shortanswer"
      [] OTHER -> raw
\* The place in items of the first item of canonical type t.
FirstOccurrence(items, t) ==
    CHOOSE i \in 1..Len(items) :
        /\ CanonicalType(items[i]) = t
        /\ \A j \in 1..(i - 1) : CanonicalType(items[j]) # t
\* The request of invocation p has been normalized.
Normalized(p) == "chunk" \in work[p]

\* C25: every alias is mapped to its canonical type, in whatever case it was
\* written, before the quotas are planned, and the normalized list holds
\* every type of the request once, in the order of first occurrence
TypesNormalizedOnce ==
    \A p \in Invocations :
        Normalized(p)
            => LET items == question_types[p]
                   types == normalized_types[p]
               IN  /\ {types[k] : k \in 1..Len(types)}
                          = {CanonicalType(items[i]) : i \in 1..Len(items)}
                   /\ \A k, l \in 1..Len(types) : k # l => types[k] # types[l]
                   /\ \A k, l \in 1..Len(types) :
                          k < l => FirstOccurrence(items, types[k])
                                       < FirstOccurrence(items, types[l])
                   /\ pc[p] # "Failed"
                         => questions_per_type[p]
                                = Max(1, num_questions[p] \div Len(types))

\* "TF, MultipleChoice, tf" became truefalse, mcq.
TypesNormalizedOnceWitness ==
    \E p \in Invocations :
        /\ Normalized(p)
        /\ question_types[p] = <<"TF", "MultipleChoice", "tf">>
        /\ normalized_types[p] = <<"truefalse", "mcq">>
        /\ pc[p] = "Embedding"


\* The step is the return of a request of get_embedding made for p.
EmbedReturns(p) == pc[p] = "AwaitEmbedding" /\ pc'[p] # "AwaitEmbedding"
\* The step is a call of get_embedding for p.
EmbedCalls(p) == pc[p] = "Embedding" /\ embed_call'[p].calls = embed_call[p].calls + 1

\* C26: a call of get_embedding sets the breaker flag exactly when its
\* request ends in a non-200 response or an exception; a 200 response
\* without the embedding field returns [] and leaves the flag as it was, so
\* that a call made while the flag is false sends a request
BreakerSetByFailures ==
    [][\A p \in Invocations :
          /\ EmbedReturns(p)
                => /\ embeddings_api_failed'
                         = (embeddings_api_failed
                               \/ embed_call'[p].kind \in {"non200", "exception"})
                   /\ embed_call'[p].kind = "ok_no_field"
                         => /\ embed_call'[p].vector = <<>>
                            /\ embeddings_api_failed' = embeddings_api_failed
          /\ EmbedCalls(p)
                => /\ embeddings_api_failed' = embeddings_api_failed
                   /\ embed_call'[p].requested = ~embeddings_api_failed
                   /\ (pc'[p] = "AwaitEmbedding") = ~embeddings_api_failed]_vars

\* The first chunk's call got a 200 without the field, no call has failed,
\* and the second chunk's call has sent its request.
BreakerSetByFailuresWitness ==
    \E p \in Invocations :
        /\ pc[p] = "AwaitEmbedding"
        /\ embed_idx[p] = 2
        /\ chunk_embeddings[p] = << <<>> >>
        /\ ~embed_failed_once
        /\ ~embeddings_api_failed
        /\ embed_call[p].requested


\* No chunk of the returned retrieval of p had an embedding.
NoneEmbedded(p) ==
    /\ retrieval[p].embedded # <<>>
    /\ \A i \in 1..Len(retrieval[p].embedded) : ~retrieval[p].embedded[i]

\* C27: a retrieval whose query got its embedding stays on the similarity
\* path whatever trips the breaker afterwards: a chunk without an embedding
\* scores 0, and when no chunk has one the first top_k chunks are returned,
\* in document order
SimilarityPathKept ==
    \A p \in Invocations :
        (Retrieved(p) /\ ~embed_call[p].query_empty)
            => /\ retrieval[p].path = "similarity"
               /\ Len(retrieval[p].embedded) = Len(chunks[p])
               /\ \A i \in 1..Len(retrieval[p].embedded) :
                      ~retrieval[p].embedded[i] => retrieval[p].scores[i] = 0
               /\ NoneEmbedded(p)
                     => retrieval[p].returned = Slice(chunks[p], 0, top_k[p])

\* Another invocation's failure tripped the breaker after the query of p got
\* its embedding: p, none of whose requests failed, has no embedded chunk and
\* returns chunks 0 and 1, where the even sample would be chunks 0 and 2.
SimilarityPathKeptWitness ==
    \E p \in Invocations :
        /\ Retrieved(p)
        /\ ~embed_call[p].query_empty
        /\ ~embed_call[p].failed
        /\ embeddings_api_failed
        /\ NoneEmbedded(p)
        /\ retrieval[p].returned = <<chunks[p][1], chunks[p][2]>>
        /\ retrieval[p].returned # evenly_distributed(chunks[p], top_k[p])


\* C28: a successful result holds at most max(num_questions, number of
\* normalized types) questions, whatever the backend returned
ResultWithinTotal ==
    \A p \in Invocations :
        pc[p] = "Done"
            => result[p].count <= Max(num_questions[p], Len(normalized_types[p]))

\* The same bound for the requests that ask for at least one question per type.
ResultWithinTotalOfLargeRequests ==
    \A p \in Invocations :
        (pc[p] = "Done" /\ num_questions[p] >= Len(normalized_types[p]))
            => result[p].count <= Max(num_questions[p], Len(normalized_types[p]))


\* Invocation p has its outcome: the returned result or a failure.
Terminal(p) == pc[p] \in {"Done", "Failed"}

\* C29: when every network call returns, fails or times out, an invocation
\* that has started comes to its outcome from whatever state it is in
EventuallyTerminal ==
    \A p \in Invocations :
        (pc[p] \notin {"NotStarted", "Done", "Failed"}) ~> Terminal(p)

\* A run came to its outcome although both of its batches timed out.
EventuallyTerminalWitness ==
    \E p \in Invocations :
        /\ Terminal(p)
        /\ Len(normalized_types[p]) = 2
        /\ Len(gen_log[p]) = 2
        /\ TimedOut(p)
        /\ all_questions[p] = <<>>
        /\ result[p].status = HTTP_500


\* The segments of the response that are not blank, in order.
NonBlankSegmentsOf(response_text) ==
    SelectSeq(SegmentsOf(response_text), LAMBDA seg : Strip(seg) # <<>>)

\* C30: of a 200 response, a true/false or short-answer batch holds one
\* question for every segment that is not blank, none dropped, up to
\* num_questions: min(num_questions, number of such segments) questions, the
\* n-th one made of the n-th such segment
EverySegmentAQuestion ==
    (BatchAnswered /\ gb_type \in {"truefalse", "shortanswer"})
        => LET segs == NonBlankSegmentsOf(gb_outcome.response)
               batch == gb_batch.questions
           IN  /\ Len(batch) = Min(gb_num, Len(segs))
               /\ \A n \in 1..Len(batch) :
                      /\ Len(batch[n]) > Len(QUESTION_PREFIX)
                      /\ SubSeq(batch[n], 1, Len(QUESTION_PREFIX)) = QUESTION_PREFIX
                      /\ batch[n][Len(QUESTION_PREFIX) + 1] = segs[n][1]

\* Of "Q: \nQ: answer: False" the blank segment gives nothing and the answer
\* line alone gives the one question of the batch, two having been asked for.
EverySegmentAQuestionWitness ==
    /\ BatchAnswered
    /\ gb_type = "truefalse"
    /\ gb_num = 2
    /\ gb_outcome.response = JoinSegments(<<SEG_BLANK, SEG_ANSWER_ONLY>>, 1)
    /\ Len(gb_batch.questions) = 1

====
